---- MODULE Spec2Model ----
(***************************************************************************)
(* Model of the fabric-catalog scraping engine (backend/app).              *)
(*                                                                         *)
(*   SpecCrawl   FabricHouseScraper._scrape_listing_page, one step per     *)
(*               await (fetch, item scrape, politeness delays), followed   *)
(*               by direct single-item scrapes of the same site.           *)
(*   FairCrawl   SpecCrawl where every fetch and delay completes.          *)
(*   SpecImage   utils.download_image, calls made one after the other.     *)
(*   SpecSelect  ScraperFactory.get_scraper.                               *)
(*   SpecItem    GenericScraper.scrape and                                 *)
(*               FabricHouseScraper._scrape_product_page on one page.      *)
(*   SpecPrice   BaseScraper.extract_price and                             *)
(*               FabricHouseScraper._extract_price on one text.            *)
(*   SpecClassify  how scrape(url) treats a URL: listing or item.          *)
(*   SpecSync    scheduled_scraper.scrape_all_bookmarks updating a record  *)
(*               that exists.                                              *)
(*   SpecRace    concurrent calls of utils.download_image for one path.    *)
(*   SpecStore   the scrape, batch and delete endpoints and the scheduled  *)
(*               sync, interleaved at their awaits, over one table and     *)
(*               one image directory.                                      *)
(* Each specification moves its own variables and leaves the others at     *)
(* their initial values.                                                   *)
(*                                                                         *)
(* Python values: None is <<>> and a present value v is <<v>> where an     *)
(* optional is needed; a dict is a function whose DOMAIN holds its keys.   *)
(* A text is a sequence of tokens; the token " " is white space.           *)
(***************************************************************************)
EXTENDS Integers, Sequences, FiniteSets, Bags, TLC

VARIABLES
    pc,             \* position of the listing crawl coroutine
    page,           \* _scrape_listing_page: page
    all_fabrics,    \* _scrape_listing_page: all_fabrics
    soup,           \* _scrape_listing_page: soup (<<>> when no page is parsed)
    product_urls,   \* _scrape_listing_page: product_urls of the current page
    idx,            \* position of the for loop in product_urls (1-based)
    result,         \* what the coroutine returned (<<>> before it returns)
    ended,          \* history: why the crawl ended
    fetched_pages,  \* history: indices of the listing pages fetched, in order
    last_listing,   \* history: the latest listing page fetched and its body
    scraped,        \* history: the item URLs the crawl has scraped
    direct,         \* history: latest direct scrape of an item URL
    trace,          \* history: the first fetches of the crawl, in order
    in_flight,      \* fetches of the crawl issued and not yet completed
    disk,           \* static/images: path -> "image" or "partial"
    dl,             \* the download_image call in progress
    calls,          \* history: the download_image calls that returned
    sel_url,        \* the URL given to ScraperFactory.get_scraper
    sel_out,        \* what get_scraper returned (None before the call)
    item_net,       \* how the server answers the fetch of the item URL
    item_html,      \* what fetch_html returned for the item URL
    item_out,       \* what the item scrape returned or raised
    price_text,     \* the text given to the price extraction
    price_out,      \* what the price extraction returned (None before the call)
    cls_url,        \* the URL given to scrape(url)
    cls_out,        \* how the scraper treated it (None before the call)
    row,            \* the stored Fabric record the sync pass found for a URL
    before,         \* history: that record when the sync pass found it
    sync_data,      \* the scrape result the record is updated from
    sync_pc,        \* position of the update of the record
    race,           \* the concurrent download_image calls, one record each
    store,          \* the table fabrics: its rows in insertion order
    ops,            \* the requests in progress: a bag of records
    started,        \* history: the number of requests that have arrived
    ended_op        \* history: the request that ended last, and how

crawlVars == <<pc, page, all_fabrics, soup, product_urls, idx, result, ended,
               fetched_pages, last_listing, scraped, direct, trace, in_flight>>

imageVars == <<disk, dl, calls>>

selectVars == <<sel_url, sel_out>>

itemVars == <<item_net, item_html, item_out>>

priceVars == <<price_text, price_out>>

classVars == <<cls_url, cls_out>>

syncVars == <<row, before, sync_data, sync_pc>>

raceVars == <<race>>

storeVars == <<store, ops, started, ended_op>>

vars == <<crawlVars, imageVars, selectVars, itemVars, priceVars, classVars, syncVars,
         raceVars, storeVars>>

(***************************************************************************)
(* Bounds of the model.                                                    *)
(***************************************************************************)
\* anchors on a listing page drawn for page 1
MaxAnchors == 2
\* listing pages of a crawl with varied content; later pages are alike
MaxVaried == 2
\* download_image calls made one after the other
MaxCalls == 2
\* fetches of a crawl kept in the trace
MaxTrace == 6

(***************************************************************************)
(* Generic helpers.                                                        *)
(***************************************************************************)
None == <<>>
Some(v) == <<v>>

Range(s) == {s[i] : i \in 1..Len(s)}

SeqsUpTo(S, n) == UNION {[1..k -> S] : k \in 0..n}

\* every order in which the elements of the finite set S can be listed
Orders(S) == {s \in [1..Cardinality(S) -> S] : Range(s) = S}

\* index of the first TRUE in the sequence of booleans b, 0 if none
FirstIndex(b) ==
    IF \E i \in 1..Len(b) : b[i]
    THEN CHOOSE i \in 1..Len(b) : b[i] /\ \A j \in 1..(i - 1) : ~b[j]
    ELSE 0

(***************************************************************************)
(* URLs.  An absolute URL is a record: scheme, host, the kind of its path  *)
(* ("product" holds /product/, "fabric" holds /fabric/, "listing" holds    *)
(* /int/all-fabrics/, "search" holds /search, "other" none of them), the   *)
(* id that tells pages of one kind apart, q (other query parameters come   *)
(* before p), p (the query holds p=<digits>) and pg (the digits).  An href *)
(* attribute is such a record with its written form: "abs" (http...),      *)
(* "proto" (//host/...), "root" (/path), "rel" (path) or "bad" (a string   *)
(* urllib cannot parse, such as x://[/product/9: urljoin raises            *)
(* ValueError).                                                            *)
(***************************************************************************)
Url(scheme, host, kind, id, q, p, pg) ==
    [scheme |-> scheme, host |-> host, kind |-> kind, id |-> id,
     q |-> q, p |-> p, pg |-> pg]

Href(form, scheme, host, kind, id, q, p, pg) ==
    [form |-> form, scheme |-> scheme, host |-> host, kind |-> kind, id |-> id,
     q |-> q, p |-> p, pg |-> pg]

SiteHost == "www.fabrichouse.com"

\* the literal '?p=' occurs in the string: p is the first query parameter
HasQuestionP(u) == u.p /\ ~u.q

\* re [?&]p=\d+ matches the string
HasPageParam(u) == u.p

\* the URL a href string denotes once it is made absolute against base
Resolved(h, scheme, host) == Url(scheme, host, h.kind, h.id, h.q, h.p, h.pg)

\* urljoin(base_url, href) raises ValueError
Unparseable(h) == h.form = "bad"

\* fabrichouse_scraper.py 131-138: convert to absolute URL
Absolute(h, base) ==
    CASE h.form = "proto" -> Resolved(h, "https", h.host)
      [] h.form = "root"  -> Resolved(h, base.scheme, base.host)
      [] h.form = "abs"   -> Resolved(h, h.scheme, h.host)
      [] OTHER            -> Resolved(h, base.scheme, base.host)

\* fabrichouse_scraper.py 155-159: the fallback's conversion; a // href also
\* starts with / and is glued behind scheme://netloc, which names no page
AbsoluteFallback(h, base) ==
    CASE h.form = "proto" -> Url(base.scheme, base.host, "other", 0, FALSE, FALSE, 0)
      [] h.form = "root"  -> Resolved(h, base.scheme, base.host)
      [] h.form = "abs"   -> Resolved(h, h.scheme, h.host)
      [] OTHER            -> Resolved(h, base.scheme, base.host)

\* FabricHouseScraper._is_listing_page
IsListingPage(u) == u.kind = "listing" \/ u.kind = "search" \/ HasQuestionP(u)

\* FabricHouseScraper._build_page_url: parse_qs, set p, urlencode
BuildPageUrl(base, n) == [base EXCEPT !.p = TRUE, !.pg = n]

(***************************************************************************)
(* Texts and BaseScraper.clean_text.                                       *)
(***************************************************************************)
Unknown == <<"Unknown">>

NonSpace(t) == SelectSeq(t, LAMBDA tok : tok # " ")

\* BaseScraper.clean_text: None for the empty string, else the words joined
\* by single blanks (a text of blanks only gives the empty string)
CleanText(t) == IF t = <<>> THEN None ELSE Some(NonSpace(t))

HasPipe(t) == \E i \in 1..Len(t) : t[i] = "|"

\* name.split('|')[0].strip()
BeforePipe(t) ==
    LET k == FirstIndex([i \in 1..Len(t) |-> t[i] = "|"])
    IN IF k = 0 THEN t ELSE SubSeq(t, 1, k - 1)

\* Python truth of an optional string: neither None nor ''
Truthy(opt) == opt # None /\ opt[1] # <<>>

(***************************************************************************)
(* Item pages.  A parsed item document holds what the extractors look at:  *)
(*   h1, title  text of the first h1 / title element, None if there is none*)
(*   named      the select_one hit of each name selector that has a hit,   *)
(*              in selector order                                          *)
(*   caps       the first all-caps line of the page text that passes the   *)
(*              name heuristic, None if no line does                       *)
(*   descs      the select_one hit of each description selector that has   *)
(*              one, in selector order                                     *)
(*   imgs       the img elements in document order                         *)
(* Item pages are served from https://www.fabrichouse.com.                 *)
(***************************************************************************)
ItemDoc(h1, title, named, caps, descs) ==
    [h1 |-> h1, title |-> title, named |-> named, caps |-> caps, descs |-> descs,
     imgs |-> <<>>]

\* the same page with these img elements
WithImgs(doc, imgs) == [doc EXCEPT !.imgs = imgs]

Raise == [raised |-> TRUE, val |-> None]
Return(v) == [raised |-> FALSE, val |-> v]

GoodName(opt) == Truthy(opt) /\ opt[1] # Unknown

\* FabricHouseScraper._extract_name, lines 249-271: name selectors, then the
\* all-caps line, then 'Unknown'
ExtractNameTail(doc) ==
    LET k == FirstIndex([i \in 1..Len(doc.named) |-> GoodName(CleanText(doc.named[i]))])
    IN IF k # 0 THEN CleanText(doc.named[k])[1]
       ELSE IF doc.caps # None THEN doc.caps[1]
       ELSE Unknown

\* FabricHouseScraper._extract_name, lines 240-247: the title element;
\* '|' in name raises TypeError when clean_text returned None
ExtractNameTitle(doc) ==
    IF doc.title = None THEN Return(ExtractNameTail(doc))
    ELSE LET name == CleanText(doc.title[1])
         IN IF name = None THEN Raise
            ELSE LET cut == IF HasPipe(name[1]) THEN BeforePipe(name[1]) ELSE name[1]
                 IN IF cut # <<>> /\ cut # Unknown THEN Return(cut)
                    ELSE Return(ExtractNameTail(doc))

\* FabricHouseScraper._extract_name
ExtractName(doc) ==
    IF doc.h1 # None /\ GoodName(CleanText(doc.h1[1]))
    THEN Return(CleanText(doc.h1[1])[1])
    ELSE ExtractNameTitle(doc)

\* FabricHouseScraper._extract_description
ExtractDescription(doc) ==
    LET k == FirstIndex([i \in 1..Len(doc.descs) |-> Truthy(CleanText(doc.descs[i]))])
    IN IF k = 0 THEN None ELSE CleanText(doc.descs[k])

(***************************************************************************)
(* Images of an item page.  The value of a URL attribute (src, data-src,   *)
(* ...) is None when the attribute is missing or empty, else a reference:  *)
(* its written form ("abs" http..., "proto" //host/..., "root" /path,      *)
(* "rel" path), the host it names (abs and proto), word (the blocklist     *)
(* word its lower-cased text holds, "" if none) and an id.  An img element *)
(* holds src, data_src, lazy (data-lazy-src or data-original), width and   *)
(* height (None when the attribute is missing, else its string) and sels,  *)
(* the numbers of the img_selectors entries that match it:                 *)
(*   1 img[src*="product"]   2 .product-image img   3 .product-photo img   *)
(*   4 main img[src*="product"]   5 [class*="product"] img                 *)
(*   6 img[itemprop="image"]   7 .gallery img   8 img[data-src*="product"] *)
(*   9 img[alt*="F"] (FabricHouseScraper only)                             *)
(***************************************************************************)
ImgRef(form, host, word, id) == [form |-> form, host |-> host, word |-> word, id |-> id]

Img(src, data_src, lazy, width, height, sels) ==
    [src |-> src, data_src |-> data_src, lazy |-> lazy,
     width |-> width, height |-> height, sels |-> sels]

\* fabrichouse_scraper.py 345-351, 380-383, generic_scraper.py 91-99, 131-134:
\* the absolute URL of a reference found on a page at base
ResolveImg(ref, base) ==
    [scheme |-> IF ref.form \in {"abs", "proto"} THEN "https" ELSE base.scheme,
     host |-> IF ref.form \in {"abs", "proto"} THEN ref.host ELSE base.host,
     word |-> ref.word, id |-> ref.id]

\* a or b or c: the first of the values that is present
RECURSIVE FirstPresent(_)
FirstPresent(opts) ==
    IF opts = <<>> THEN None
    ELSE IF Head(opts) # None THEN Head(opts)
    ELSE FirstPresent(Tail(opts))

\* fabrichouse_scraper.py 354, generic_scraper.py 113
BlockWords == {"icon", "logo", "avatar", "badge", "button"}

\* fabrichouse_scraper.py 386, generic_scraper.py 137
FallbackBlockWords == {"icon", "logo", "avatar"}

\* the strings int() accepts, with their values
IsInt(str) == str \in {"0", "50", "100", "400"}

IntOf(str) ==
    CASE str = "0" -> 0 [] str = "50" -> 50 [] str = "100" -> 100 [] str = "400" -> 400

\* Python truth of an attribute value: present and not ''
AttrTruthy(attr) == attr # None /\ attr[1] # ""

\* fabrichouse_scraper.py 358-365, generic_scraper.py 103-110: the size check
\* says "continue"; int() raising ValueError ends the check without it
SizeRejects(img) ==
    /\ AttrTruthy(img.width)
    /\ AttrTruthy(img.height)
    /\ IsInt(img.width[1])
    /\ \/ IntOf(img.width[1]) < 100
       \/ IsInt(img.height[1]) /\ IntOf(img.height[1]) < 100

\* fabrichouse_scraper.py 335-367, generic_scraper.py 80-117: the selector
\* pass from selector sel to selector last
RECURSIVE SelectorPass(_, _, _, _)
SelectorPass(imgs, base, sel, last) ==
    IF sel > last THEN None
    ELSE LET k == FirstIndex([i \in 1..Len(imgs) |-> sel \in imgs[i].sels])
             ref == IF k = 0 THEN None
                    ELSE FirstPresent(<<imgs[k].src, imgs[k].data_src, imgs[k].lazy>>)
         IN IF ref = None THEN SelectorPass(imgs, base, sel + 1, last)
            ELSE IF ResolveImg(ref[1], base).word \in BlockWords
                    \/ SizeRejects(imgs[k])
                 THEN SelectorPass(imgs, base, sel + 1, last)
                 ELSE Some(ResolveImg(ref[1], base))

\* fabrichouse_scraper.py 390-391, generic_scraper.py 141-142:
\* img.get('width', '0')
AttrOr0(attr) == IF attr = None THEN "0" ELSE attr[1]

\* fabrichouse_scraper.py 374-399, generic_scraper.py 125-150: the loop of the
\* largest-image fallback from element i on
RECURSIVE LargestFrom(_, _, _, _, _)
LargestFrom(imgs, base, i, largest_img, largest_size) ==
    IF i > Len(imgs) THEN largest_img
    ELSE LET ref == FirstPresent(<<imgs[i].src, imgs[i].data_src>>)
             width == AttrOr0(imgs[i].width)
             height == AttrOr0(imgs[i].height)
         IN IF ref = None \/ ResolveImg(ref[1], base).word \in FallbackBlockWords
            THEN LargestFrom(imgs, base, i + 1, largest_img, largest_size)
            ELSE IF width # "" /\ height # "" /\ ~(IsInt(width) /\ IsInt(height))
            THEN LargestFrom(imgs, base, i + 1,
                             IF largest_img = None THEN Some(ResolveImg(ref[1], base))
                             ELSE largest_img,
                             largest_size)
            ELSE LET size == IF width # "" /\ height # ""
                             THEN IntOf(width) * IntOf(height) ELSE 10000
                 IN IF size > largest_size
                    THEN LargestFrom(imgs, base, i + 1,
                                     Some(ResolveImg(ref[1], base)), size)
                    ELSE LargestFrom(imgs, base, i + 1, largest_img, largest_size)

\* FabricHouseScraper._extract_image_url (last = 9) and generic_scraper.py
\* 79-153 (last = 8)
ExtractImageUrl(imgs, base, last) ==
    LET image_url == SelectorPass(imgs, base, 1, last)
    IN IF image_url # None THEN image_url
       ELSE LargestFrom(imgs, base, 1, None, 0)

\* the URL item pages are served from
ItemBase == [scheme |-> "https", host |-> "www.fabrichouse.com"]

\* a dict holding key k when the optional value is present
Field(k, opt) == IF opt = None THEN <<>> ELSE (k :> opt[1])

Get(d, k) == IF k \in DOMAIN d THEN Some(d[k]) ELSE None

\* FabricHouseScraper._scrape_product_page, lines 192-229, on a parsed page
ExtractProduct(doc) ==
    LET name == ExtractName(doc)
    IN IF name.raised THEN Raise
       ELSE Return(Field("name", IF name.val # <<>> THEN Some(name.val) ELSE None)
                   @@ Field("image_url", ExtractImageUrl(doc.imgs, ItemBase, 9))
                   @@ Field("description", ExtractDescription(doc)))

\* GenericScraper.scrape, lines 33-173, on a parsed page; the value stored under
\* 'description' is whatever clean_text returned, None included
ExtractGeneric(doc) ==
    LET title == IF doc.h1 # None THEN doc.h1 ELSE doc.title
        rest == Field("image_url", ExtractImageUrl(doc.imgs, ItemBase, 8))
                @@ (IF doc.descs = <<>> THEN <<>>
                    ELSE ("description" :> CleanText(doc.descs[Len(doc.descs)])))
    IN IF title = None
       THEN Return(rest)
       ELSE LET text == CleanText(title[1])
            IN IF text = None THEN Raise
               ELSE Return(("name" :> (IF HasPipe(text[1]) THEN BeforePipe(text[1])
                                       ELSE text[1]))
                           @@ rest)

(***************************************************************************)
(* Listing pages.  A parsed listing document is the sequence of its anchor *)
(* elements in document order.  An anchor holds its href attribute (None   *)
(* if it has none), card (the class of the element it lies in: "card" for  *)
(* .product-card, "item" for .product-item, "none"), code (a product code  *)
(* text F<digits> whose parent's first anchor with an href is this one)    *)
(* and what the next-page patterns see: ntext (its string matches          *)
(* Next|->|>), nclass (its class matches next), naria (its aria-label      *)
(* matches next).                                                          *)
(***************************************************************************)
Anchor(href, card, code, ntext, nclass, naria) ==
    [href |-> href, card |-> card, code |-> code,
     ntext |-> ntext, nclass |-> nclass, naria |-> naria]

\* the six selectors of _extract_product_urls, in order
Selectors == 1..6

SelectorMatches(sel, a) ==
    CASE sel = 1 -> a.href # None /\ a.href[1].kind = "product"
      [] sel = 2 -> a.href # None /\ a.href[1].kind = "fabric"
      [] sel = 3 -> a.href # None /\ a.href[1].kind = "listing"
      [] sel = 4 -> a.card = "card"
      [] sel = 5 -> a.card = "item"
      [] sel = 6 -> a.card # "none" /\ a.href # None

\* the links the selector loops visit, in the order they visit them
RECURSIVE SelectedFrom(_, _)
SelectedFrom(doc, sel) ==
    IF sel \notin Selectors THEN <<>>
    ELSE SelectSeq(doc, LAMBDA a : SelectorMatches(sel, a)) \o SelectedFrom(doc, sel + 1)

Selected(doc) == SelectSeq(SelectedFrom(doc, 1), LAMBDA a : a.href # None)

\* fabrichouse_scraper.py 140-143: keep product pages, once each
RECURSIVE KeepProducts(_, _, _)
KeepProducts(links, base, acc) ==
    IF links = <<>> THEN acc
    ELSE LET href == Absolute(Head(links).href[1], base)
         IN KeepProducts(Tail(links), base,
                IF /\ href.kind \in {"product", "fabric"}
                   /\ href \notin Range(acc)
                   /\ ~HasQuestionP(href)
                THEN Append(acc, href) ELSE acc)

\* fabrichouse_scraper.py 145-161: the product-code fallback
RECURSIVE KeepCoded(_, _, _)
KeepCoded(links, base, acc) ==
    IF links = <<>> THEN acc
    ELSE LET href == AbsoluteFallback(Head(links).href[1], base)
         IN KeepCoded(Tail(links), base,
                IF href \notin Range(acc) THEN Append(acc, href) ELSE acc)

Coded(doc) == SelectSeq(doc, LAMBDA a : a.code /\ a.href # None)

\* the list product_urls as built by lines 113-161, before set() is applied;
\* raised when urljoin raises on one of the hrefs it is given
DiscoveredUrls(doc, base) ==
    IF \E i \in 1..Len(Selected(doc)) : Unparseable(Selected(doc)[i].href[1])
    THEN Raise
    ELSE LET found == KeepProducts(Selected(doc), base, <<>>)
         IN IF found # <<>> THEN Return(found)
            ELSE IF \E i \in 1..Len(Coded(doc)) : Unparseable(Coded(doc)[i].href[1])
                 THEN Raise
                 ELSE Return(KeepCoded(Coded(doc), base, <<>>))

\* every link the selector loops visit is kept, as often as it is visited
ExtractProductUrlsEveryVisit(doc, base) ==
    IF DiscoveredUrls(doc, base).raised THEN {Raise}
    ELSE {Return([i \in 1..Len(Selected(doc)) |->
                    Absolute(Selected(doc)[i].href[1], base)])}

\* FabricHouseScraper._extract_product_urls: list(set(product_urls)); the
\* order of a set of strings is not fixed, so every order is a possible value
ExtractProductUrls(doc, base) ==
    LET found == DiscoveredUrls(doc, base)
    IN IF found.raised THEN {Raise}
       ELSE {Return(o) : o \in Orders(Range(found.val))}

\* lines 174-176: a pattern's first match counts when it has a (non-empty) href
Indicates(doc, pattern) ==
    LET k == FirstIndex([i \in 1..Len(doc) |-> doc[i][pattern]])
    IN k # 0 /\ doc[k].href # None

\* _has_next_page answering yes whatever the page holds
HasNextPageAlways(doc) == TRUE

\* FabricHouseScraper._has_next_page
HasNextPage(doc) ==
    \/ Indicates(doc, "ntext")
    \/ Indicates(doc, "nclass")
    \/ Indicates(doc, "naria")
    \/ \E i \in 1..Len(doc) : doc[i].href # None /\ HasPageParam(doc[i].href[1])

(***************************************************************************)
(* The site the crawl runs against.                                        *)
(***************************************************************************)
SeedUrl == Url("https", SiteHost, "listing", 0, FALSE, FALSE, 0)

ItemUrl(kind, id) == Url("https", SiteHost, kind, id, FALSE, FALSE, 0)

\* what the item page with a given id serves: None when the fetch fails
\* (status other than 200, timeout, network error), else its document
ItemWeb(u) ==
    CASE u.id = 1 -> Some(ItemDoc(Some(<<"ALPHA">>), None, <<>>, None, <<>>))
      [] u.id = 2 -> Some(ItemDoc(None, None, <<>>, None, <<<<"soft">>>>))
      [] u.id = 3 -> Some(ItemDoc(None, Some(<<>>), <<>>, None, <<<<"warm">>>>))
      [] u.id = 4 -> None
      [] u.id = 5 -> Some(ItemDoc(None, Some(<<"BETA", " ", "|", " ", "Shop">>),
                                  <<>>, None, <<>>))
      [] u.id = 6 -> Some(ItemDoc(Some(<<"Unknown">>), None, <<<<"GAMMA">>>>, None, <<>>))
      [] OTHER    -> None

Link(h) == Anchor(Some(h), "none", FALSE, FALSE, FALSE, FALSE)

\* the anchors listing pages are built from
Anchors ==
    { Link(Href("abs", "https", SiteHost, "product", 1, FALSE, FALSE, 0)),
      Anchor(Some(Href("root", "", "", "product", 1, FALSE, FALSE, 0)),
             "card", FALSE, FALSE, FALSE, FALSE),
      Link(Href("rel", "", "", "fabric", 2, FALSE, FALSE, 0)),
      Link(Href("root", "", "", "product", 3, FALSE, FALSE, 0)),
      Link(Href("abs", "https", SiteHost, "product", 4, FALSE, FALSE, 0)),
      Link(Href("proto", "", SiteHost, "fabric", 5, FALSE, FALSE, 0)),
      Link(Href("bad", "", "", "product", 9, FALSE, FALSE, 0)),
      Link(Href("root", "", "", "product", 1, FALSE, TRUE, 2)),
      Anchor(Some(Href("root", "", "", "other", 6, FALSE, FALSE, 0)),
             "card", TRUE, FALSE, FALSE, FALSE),
      Anchor(Some(Href("root", "", "", "listing", 0, FALSE, TRUE, 2)),
             "none", FALSE, FALSE, TRUE, FALSE),
      Anchor(None, "none", FALSE, TRUE, FALSE, FALSE),
      Anchor(Some(Href("root", "", "", "other", 7, FALSE, FALSE, 0)),
             "none", FALSE, TRUE, FALSE, TRUE),
      Link(Href("rel", "", "", "listing", 0, TRUE, TRUE, 3)) }

\* a first page with links to two named items and a next anchor
TwoLinksAndNext ==
    << Link(Href("abs", "https", SiteHost, "product", 1, FALSE, FALSE, 0)),
       Link(Href("proto", "", SiteHost, "fabric", 5, FALSE, FALSE, 0)),
       Anchor(Some(Href("root", "", "", "listing", 0, FALSE, TRUE, 2)),
              "none", FALSE, FALSE, TRUE, FALSE) >>

\* a first page with a link to an item whose page has no name to read between
\* links to two named items, and a next anchor
ThreeLinksAndNext ==
    << Link(Href("abs", "https", SiteHost, "product", 1, FALSE, FALSE, 0)),
       Link(Href("root", "", "", "product", 3, FALSE, FALSE, 0)),
       Link(Href("proto", "", SiteHost, "fabric", 5, FALSE, FALSE, 0)),
       Anchor(Some(Href("root", "", "", "listing", 0, FALSE, TRUE, 2)),
              "none", FALSE, FALSE, TRUE, FALSE) >>

ListingDocs == SeqsUpTo(Anchors, MaxAnchors) \cup {TwoLinksAndNext, ThreeLinksAndNext}

\* pages after the first: a link to a named item and a next anchor, an empty
\* page, a last page without a next-page indicator
LaterDocs ==
    { << Link(Href("abs", "https", SiteHost, "product", 1, FALSE, FALSE, 0)),
         Anchor(Some(Href("root", "", "", "listing", 0, FALSE, TRUE, 2)),
                "none", FALSE, FALSE, TRUE, FALSE) >>,
      << >>,
      << Link(Href("abs", "https", SiteHost, "product", 1, FALSE, FALSE, 0)) >> }

\* among the first MaxVaried pages also: a page index anchor and a link to an
\* item without a name
VariedDocs ==
    { << Link(Href("rel", "", "", "listing", 0, TRUE, TRUE, 3)),
         Link(Href("rel", "", "", "fabric", 2, FALSE, FALSE, 0)) >>,
      << Anchor(Some(Href("root", "", "", "product", 6, FALSE, FALSE, 0)),
                "item", FALSE, FALSE, FALSE, FALSE) >> }

\* the documents the site may serve for listing page n
PageDocs(n) ==
    IF n = 1 THEN ListingDocs
    ELSE IF n <= MaxVaried THEN LaterDocs \cup VariedDocs
    ELSE LaterDocs

\* the item URLs a caller may scrape directly
DirectUrls == {ItemUrl(k, i) : k \in {"product", "fabric"}, i \in 1..6}

(***************************************************************************)
(* Initial values of the variables the other specifications move.          *)
(***************************************************************************)
NoCall == [pc |-> "idle", image_url |-> None, fabric_name |-> <<>>]

ImageInit ==
    /\ disk = <<>>
    /\ dl = NoCall
    /\ calls = <<>>

SelectIdle ==
    /\ sel_url = SeedUrl
    /\ sel_out = None

\* an answer to session.get: outcome "200", "404" (any status other than
\* 200), "timeout" or "error" (a connection error), and the body text that
\* came with a status, parsed (None for the empty text)
Response(outcome, body) == [outcome |-> outcome, body |-> body]

NoResponse == Response("error", None)

ItemIdle ==
    /\ item_net = NoResponse
    /\ item_html = None
    /\ item_out = None

PriceIdle ==
    /\ price_text = <<>>
    /\ price_out = None

ClassIdle ==
    /\ cls_url = SeedUrl
    /\ cls_out = None

\* no record found yet
NoRow == [name |-> None]

SyncIdle ==
    /\ row = NoRow
    /\ before = NoRow
    /\ sync_data = <<>>
    /\ sync_pc = "idle"

\* nothing but the item scrape, the crawl, the download and the selection runs
\* no concurrent download_image call
RaceIdle == race = <<>>

\* an empty table, no request
StoreIdle ==
    /\ store = <<>>
    /\ ops = EmptyBag
    /\ started = 0
    /\ ended_op = <<>>

RestIdle == PriceIdle /\ ClassIdle /\ SyncIdle /\ RaceIdle /\ StoreIdle

(***************************************************************************)
(* FabricHouseScraper._scrape_listing_page as a coroutine: one action per  *)
(* await (fetch_html of a listing page, _scrape_product_page of an item,   *)
(* asyncio.sleep(1), asyncio.sleep(2)), each running the code up to the    *)
(* next await or the return.                                               *)
(*   pc: "start"       not called yet                                      *)
(*       "fetch"       awaiting fetch_html(page_url)            (line 49)  *)
(*       "items"       awaiting _scrape_product_page(           (line 67)  *)
(*                       product_urls[idx])                                *)
(*       "item_delay"  awaiting asyncio.sleep(1)                (line 73)  *)
(*       "page_delay"  awaiting asyncio.sleep(2)                (line 90)  *)
(*       "done"        returned                                 (line 96)  *)
(*       "raised"      left by an exception                                *)
(***************************************************************************)
\* line 85: the safety limit
PageLimit == 100

\* a slip in line 82: the index moves by two
NextPageSkip(n) == n + 2

\* line 82: page += 1
NextPage(n) == n + 1

\* lines 96-100
ListingResult(fabrics) ==
    [fabrics |-> fabrics, is_listing_page |-> TRUE, total_count |-> Len(fabrics)]

\* lines 50-51 left out: a failed fetch reaches the parser
AfterListingFetchUnchecked(html) == IF html = None THEN "raise" ELSE "parse"

\* lines 49-53: "break" on a failed fetch, else the page is parsed
AfterListingFetch(html) == IF html = None THEN "break" ELSE "parse"

\* lines 58-60 left out: an empty page does not end the loop
NoProductsIgnored(urls) == FALSE

\* line 58: the page yielded no product URL
NoProducts(urls) == urls = <<>>

\* line 68 without the comparison to the sentinel
KeepNamed(data) == Truthy(Get(data, "name"))

\* line 68: the record is kept
Keep(data) == Truthy(Get(data, "name")) /\ data["name"] # Unknown

\* lines 70-71
WithUrl(data, u) == ("url" :> u) @@ data

\* BaseScraper.fetch_html followed by FabricHouseScraper._scrape_product_page
ScrapeProductPage(u) ==
    IF ItemWeb(u) = None THEN Return(<<>>) ELSE ExtractProduct(ItemWeb(u)[1])

NoListing == [page |-> 0, url |-> SeedUrl, body |-> None]

CrawlInit ==
    /\ pc = "start"
    /\ page = 0
    /\ all_fabrics = <<>>
    /\ soup = None
    /\ product_urls = <<>>
    /\ idx = 0
    /\ result = None
    /\ ended = "no"
    /\ fetched_pages = <<>>
    /\ last_listing = NoListing
    /\ scraped = {}
    /\ direct = None
    /\ trace = <<>>
    /\ in_flight = 0

\* the fetch of listing page n, which yielded this many item URLs and showed
\* (or not) a next page
ListingFetch(n, links, next) ==
    [kind |-> "listing", page |-> n, links |-> links, next |-> next, kept |-> FALSE]

\* the fetch of an item page found on listing page n, whose record was
\* appended to all_fabrics (or not)
ItemFetch(n, kept) ==
    [kind |-> "item", page |-> n, links |-> 0, next |-> FALSE, kept |-> kept]

Record(tr, event) == IF Len(tr) < MaxTrace THEN Append(tr, event) ELSE tr

\* an awaited fetch that is resumed before the fetch has completed
CompleteNot(n) == n

\* await fetch_html(...) resumes: the request is over, its session closed
Complete(n) == n - 1

\* fetch_html(...) is called
Issue(n) == n + 1

\* the coroutine runs on to its next await: a fetch is issued when that is
\* fetch_html or _scrape_product_page
RunTo(n, to) == IF to \in {"fetch", "items"} THEN Issue(n) ELSE n

\* lines 92-100: leave the loop and return
Finish(reason, fabrics) ==
    /\ pc' = "done"
    /\ ended' = reason
    /\ result' = Some(ListingResult(fabrics))
    /\ soup' = None
    /\ product_urls' = <<>>
    /\ idx' = 0

\* an exception leaves the coroutine
Propagate ==
    /\ pc' = "raised"
    /\ ended' = "Raised"
    /\ result' = None
    /\ soup' = None
    /\ product_urls' = <<>>
    /\ idx' = 0

\* lines 78-90: after the last item of the page
EndOfPage(fabrics) ==
    IF ~HasNextPage(soup[1])
    THEN Finish("Exhausted", fabrics) /\ page' = page
    ELSE /\ page' = NextPage(page)
         /\ IF page' > PageLimit
            THEN Finish("Capped", fabrics)
            ELSE /\ pc' = "page_delay"
                 /\ UNCHANGED <<soup, product_urls, idx, result, ended>>

\* the for loop of line 65 left after its first pass
AfterItemLeaves(fabrics) == EndOfPage(fabrics)

\* the for loop of line 65 moves on from product_urls[idx]
AfterItem(fabrics) ==
    IF idx < Len(product_urls)
    THEN /\ idx' = idx + 1
         /\ pc' = "items"
         /\ UNCHANGED <<page, soup, product_urls, result, ended>>
    ELSE EndOfPage(fabrics)

\* lines 74-76 left out: the exception leaves the coroutine
ItemRaisedUncaught(fabrics) == Propagate /\ page' = page

\* lines 74-76: except Exception: ... continue
ItemRaised(fabrics) == AfterItem(fabrics)

\* FabricHouseScraper.scrape on a listing URL: lines 41-49
StartCrawl ==
    /\ pc = "start"
    /\ IsListingPage(SeedUrl)
    /\ pc' = "fetch"
    /\ page' = 1
    /\ all_fabrics' = <<>>
    /\ in_flight' = RunTo(in_flight, pc')
    /\ UNCHANGED <<soup, product_urls, idx, result, ended, fetched_pages,
                   last_listing, scraped, direct, trace>>
    /\ UNCHANGED <<imageVars, selectVars, itemVars, priceVars, classVars, syncVars, raceVars, storeVars>>

\* fetch_html(page_url) completes: lines 49-62
FetchListing ==
    /\ pc = "fetch"
    /\ \E html \in {None} \cup {Some(d) : d \in PageDocs(page)} :
         /\ fetched_pages' = Append(fetched_pages, page)
         /\ last_listing' = [page |-> page, url |-> BuildPageUrl(SeedUrl, page),
                              body |-> html]
         /\ UNCHANGED <<page, all_fabrics, scraped, direct>>
         /\ CASE AfterListingFetch(html) = "break" ->
                   /\ Finish("FetchFailed", all_fabrics)
                   /\ trace' = Record(trace, ListingFetch(page, 0, FALSE))
              [] AfterListingFetch(html) = "raise" ->
                   /\ Propagate
                   /\ trace' = Record(trace, ListingFetch(page, 0, FALSE))
              [] OTHER ->
                   \E found \in ExtractProductUrls(html[1], SeedUrl) :
                      /\ trace' = Record(trace,
                                      ListingFetch(page, Len(found.val),
                                                   HasNextPage(html[1])))
                      /\ IF found.raised THEN Propagate
                         ELSE IF NoProducts(found.val) THEN Finish("Empty", all_fabrics)
                         ELSE /\ soup' = html
                              /\ product_urls' = found.val
                              /\ idx' = 1
                              /\ pc' = "items"
                              /\ UNCHANGED <<result, ended>>
    /\ in_flight' = RunTo(Complete(in_flight), pc')
    /\ UNCHANGED <<imageVars, selectVars, itemVars, priceVars, classVars, syncVars, raceVars, storeVars>>

\* _scrape_product_page(product_url) completes: lines 66-76
ScrapeItem ==
    /\ pc = "items"
    /\ LET u == product_urls[idx]
           fabric_data == ScrapeProductPage(u)
       IN /\ scraped' = scraped \cup {u}
          /\ trace' = Record(trace, ItemFetch(page, ~fabric_data.raised
                                                       /\ Keep(fabric_data.val)))
          /\ UNCHANGED <<fetched_pages, last_listing, direct>>
          /\ IF fabric_data.raised
             THEN /\ all_fabrics' = all_fabrics
                  /\ ItemRaised(all_fabrics)
             ELSE /\ all_fabrics' = IF Keep(fabric_data.val)
                                    THEN Append(all_fabrics, WithUrl(fabric_data.val, u))
                                    ELSE all_fabrics
                  /\ pc' = "item_delay"
                  /\ UNCHANGED <<page, soup, product_urls, idx, result, ended>>
    /\ in_flight' = RunTo(Complete(in_flight), pc')
    /\ UNCHANGED <<imageVars, selectVars, itemVars, priceVars, classVars, syncVars, raceVars, storeVars>>

\* asyncio.sleep(1) completes: line 73
ItemDelay ==
    /\ pc = "item_delay"
    /\ AfterItem(all_fabrics)
    /\ in_flight' = RunTo(in_flight, pc')
    /\ UNCHANGED <<all_fabrics, fetched_pages, last_listing, scraped, direct, trace>>
    /\ UNCHANGED <<imageVars, selectVars, itemVars, priceVars, classVars, syncVars, raceVars, storeVars>>

\* asyncio.sleep(2) completes: line 90, back to line 44
PageDelay ==
    /\ pc = "page_delay"
    /\ pc' = "fetch"
    /\ in_flight' = RunTo(in_flight, pc')
    /\ UNCHANGED <<page, all_fabrics, soup, product_urls, idx, result, ended,
                   fetched_pages, last_listing, scraped, direct, trace>>
    /\ UNCHANGED <<imageVars, selectVars, itemVars, priceVars, classVars, syncVars, raceVars, storeVars>>

\* FabricHouseScraper.scrape on an item URL, once the crawl is over
DirectScrape ==
    /\ pc \in {"done", "raised"}
    /\ direct = None
    /\ \E u \in DirectUrls :
         /\ ~IsListingPage(u)
         /\ direct' = Some([url |-> u, out |-> ScrapeProductPage(u)])
    /\ UNCHANGED <<pc, page, all_fabrics, soup, product_urls, idx, result, ended,
                   fetched_pages, last_listing, scraped, trace, in_flight>>
    /\ UNCHANGED <<imageVars, selectVars, itemVars, priceVars, classVars, syncVars, raceVars, storeVars>>

CrawlNext ==
    \/ StartCrawl
    \/ FetchListing
    \/ ScrapeItem
    \/ ItemDelay
    \/ PageDelay
    \/ DirectScrape

\* a fresh scraper, nothing else running
CrawlStart == CrawlInit /\ ImageInit /\ SelectIdle /\ ItemIdle /\ RestIdle

SpecCrawl == CrawlStart /\ [][CrawlNext]_vars

\* each fetch and each delay of the crawl completes
FairCrawl ==
    SpecCrawl /\ WF_vars(StartCrawl \/ FetchListing \/ ScrapeItem \/ ItemDelay \/ PageDelay)

(***************************************************************************)
(* Properties of the listing crawl.                                        *)
(***************************************************************************)
\* the page yielded this many candidate item links (0 when extraction raised)
LinkCount(doc) ==
    IF DiscoveredUrls(doc, SeedUrl).raised THEN 0
    ELSE Cardinality(Range(DiscoveredUrls(doc, SeedUrl).val))

\* a 'next' anchor with an href, or an anchor whose href carries p=<digits>
NextIndicator(doc) ==
    \E i \in 1..Len(doc) :
        /\ doc[i].href # None
        /\ \/ doc[i].ntext \/ doc[i].nclass \/ doc[i].naria
           \/ doc[i].href[1].p

IsListingResultOf(r, fabrics) ==
    /\ r # None
    /\ r[1].is_listing_page = TRUE
    /\ r[1].fabrics = fabrics
    /\ r[1].total_count = Len(fabrics)

\* C1: the listing pages fetched are pages 1, 2, 3, ... in this order, one
\* step at a time, and never more than 100 of them
C1_PagesInOrderCapped ==
    /\ Len(fetched_pages) <= 100
    /\ \A i \in 1..Len(fetched_pages) : fetched_pages[i] = i

C1_Witness == ended = "Capped" /\ Len(fetched_pages) = 100

\* C6: a failed listing fetch ends the crawl in that very step with a
\* ListingResult of exactly the items accumulated before it, and nothing is
\* fetched afterwards
C6_FailedListingFetchStops ==
    /\ [][(fetched_pages' # fetched_pages /\ last_listing'.body = None)
            => /\ pc' = "done"
               /\ all_fabrics' = all_fabrics
               /\ IsListingResultOf(result', all_fabrics)]_vars
    /\ [][(last_listing.page # 0 /\ last_listing.body = None)
            => UNCHANGED <<pc, fetched_pages, last_listing, scraped, result,
                           all_fabrics>>]_vars

C6_Witness ==
    /\ pc = "done"
    /\ last_listing.page = 3
    /\ last_listing.body = None
    /\ Len(result[1].fabrics) = 2

\* C7: a listing page without item links ends the crawl at once with a
\* ListingResult; nothing is fetched afterwards; on page 1 the result is empty
C7_EmptyPageEndsCrawl ==
    /\ [](( /\ last_listing.body # None
            /\ ~DiscoveredUrls(last_listing.body[1], SeedUrl).raised
            /\ LinkCount(last_listing.body[1]) = 0 )
          => /\ pc = "done"
             /\ IsListingResultOf(result, all_fabrics)
             /\ (last_listing.page = 1 =>
                    result[1].fabrics = <<>> /\ result[1].total_count = 0))
    /\ [][pc = "done" => UNCHANGED <<pc, fetched_pages, last_listing, scraped,
                                     result>>]_vars

C7_Witness ==
    /\ pc = "done"
    /\ last_listing.page = 1
    /\ last_listing.body # None
    /\ Len(last_listing.body[1]) = 2
    /\ LinkCount(last_listing.body[1]) = 0
    /\ result[1].total_count = 0

\* C8: listing page n+1 is fetched only after page n was fetched with
\* success, yielded a candidate item link and showed a next-page indicator
C8_NextPageOnlyIf ==
    [][(fetched_pages' # fetched_pages /\ page > 1)
         => /\ last_listing.page = page - 1
            /\ last_listing.body # None
            /\ LinkCount(last_listing.body[1]) >= 1
            /\ NextIndicator(last_listing.body[1])]_vars

C8_Witness == Len(fetched_pages) = 2 /\ last_listing.page = 2

\* C9: a crawl that is over has returned a ListingResult with is_listing
\* true, in one of the terminal states Exhausted, Empty, Capped or after a
\* failed listing fetch
C9_EndsWithListingResult ==
    pc \notin {"start", "fetch", "items", "item_delay", "page_delay"}
        => /\ pc = "done"
           /\ ended \in {"Exhausted", "Empty", "Capped", "FetchFailed"}
           /\ IsListingResultOf(result, all_fabrics)

\* C9, the part that holds: every crawl comes to an end
C9_Terminates == <>(pc \in {"done", "raised"})

\* C10: no item of a ListingResult is named "Unknown" or unnamed, each
\* carries the URL whose page gave its name, and a direct scrape of a page
\* without a name returns the record named "Unknown"
C10_UnknownOnlyDirect ==
    /\ \A i \in 1..Len(all_fabrics) :
          /\ "name" \in DOMAIN all_fabrics[i]
          /\ all_fabrics[i]["name"] \notin {Unknown, <<>>}
          /\ "url" \in DOMAIN all_fabrics[i]
          /\ all_fabrics[i]["url"] \in scraped
          /\ ItemWeb(all_fabrics[i]["url"]) # None
          /\ ExtractName(ItemWeb(all_fabrics[i]["url"])[1])
                = Return(all_fabrics[i]["name"])
    /\ result # None => result[1].fabrics = all_fabrics
    /\ \A i \in 1..Len(direct) :
          ( /\ ItemWeb(direct[i].url) # None
            /\ ExtractName(ItemWeb(direct[i].url)[1]) = Return(Unknown) )
          => /\ ~direct[i].out.raised
             /\ "name" \in DOMAIN direct[i].out.val
             /\ direct[i].out.val["name"] = Unknown

C10_Witness ==
    /\ pc = "done"
    /\ Len(result[1].fabrics) >= 1
    /\ direct # None
    /\ direct[1].url \in scraped
    /\ \A i \in 1..Len(all_fabrics) : all_fabrics[i]["url"] # direct[1].url
    /\ ~direct[1].out.raised
    /\ Get(direct[1].out.val, "name") = Some(Unknown)

(***************************************************************************)
(* utils.download_image.  An image URL is None (no URL, or the empty       *)
(* string) or a record of its path stem, the extension of its path ("" if  *)
(* it has none) and whether a query string follows.  A fabric name is a    *)
(* sequence of characters.  One action per await of the coroutine:         *)
(*   dl.pc: "idle"   no call in progress                                   *)
(*          "get"    awaiting session.get(image_url)          (line 53)    *)
(*          "open"   awaiting aiofiles.open(filepath, 'wb')   (line 61)    *)
(*          "read"   awaiting response.read()                 (line 62)    *)
(*          "write"  awaiting f.write(...)                    (line 62)    *)
(***************************************************************************)
ImageUrl(stem, ext, query) == [stem |-> stem, ext |-> ext, query |-> query]

\* line 33: the slice [:50]
NameLimit == 50

\* line 33: c.isalnum() or c in (' ', '-', '_')
SafeChars == {"a", "b", "c", "f", "i", "r", "0", " ", "-", "_"}

RECURSIVE LStrip(_)
LStrip(t) == IF t # <<>> /\ Head(t) = " " THEN LStrip(Tail(t)) ELSE t

RECURSIVE RStrip(_)
RStrip(t) ==
    IF t # <<>> /\ t[Len(t)] = " " THEN RStrip(SubSeq(t, 1, Len(t) - 1)) ELSE t

\* str.strip()
Strip(t) == RStrip(LStrip(t))

Take(t, n) == SubSeq(t, 1, IF Len(t) < n THEN Len(t) ELSE n)

\* lines 33-34: safe_name
SafeName(fabric_name) ==
    LET kept == Take(Strip(SelectSeq(fabric_name, LAMBDA c : c \in SafeChars)), NameLimit)
    IN [i \in 1..Len(kept) |-> IF kept[i] = " " THEN "_" ELSE kept[i]]

\* line 32: hashlib.md5(image_url.encode()).hexdigest()[:8]; the digest is a
\* function of the whole URL string, taken to differ for the URLs used here
UrlHash(u) == <<"md5", u.stem, u.ext, u.query>>

\* lines 37-40: the extension of the URL's path, .jpg if it has none
Extension(u) == IF u.ext = "" THEN ".jpg" ELSE u.ext

\* lines 42-43: filepath
FilePath(u, fabric_name) ==
    [dir |-> "static/images", name |-> SafeName(fabric_name),
     hash |-> UrlHash(u), ext |-> Extension(u)]

\* the cache check answering no whatever the directory holds
PathExistsNever(d, path) == FALSE

\* line 46: os.path.exists(filepath)
PathExists(d, path) == path \in DOMAIN d

\* the file at path now holds content
WriteFile(d, path, content) == (path :> content) @@ d

ImageUrls ==
    {None, Some(ImageUrl(1, ".jpg", FALSE)), Some(ImageUrl(2, "", TRUE))}

ImageNames == {<<"a">>, <<"a", "/">>, <<" ", "a", " ", "b">>}

OtherIdle == CrawlInit /\ SelectIdle /\ ItemIdle /\ RestIdle

\* the call in progress returns ret
Returned(ret, fetched, image_url, fabric_name) ==
    /\ calls' = Append(calls, [image_url |-> image_url, fabric_name |-> fabric_name,
                               ret |-> ret, fetched |-> fetched])
    /\ dl' = NoCall

\* download_image(image_url, fabric_name) is called: lines 23-53
CallDownload ==
    /\ dl.pc = "idle"
    /\ Len(calls) < MaxCalls
    /\ \E image_url \in ImageUrls, fabric_name \in ImageNames :
         IF image_url = None
         THEN Returned(None, FALSE, image_url, fabric_name)
         ELSE IF PathExists(disk, FilePath(image_url[1], fabric_name))
         THEN Returned(Some(FilePath(image_url[1], fabric_name)), FALSE,
                       image_url, fabric_name)
         ELSE /\ dl' = [pc |-> "get", image_url |-> image_url,
                        fabric_name |-> fabric_name]
              /\ calls' = calls
    /\ UNCHANGED <<disk, crawlVars, selectVars, itemVars, priceVars, classVars, syncVars, raceVars, storeVars>>

\* session.get answers or fails: lines 53-54, 65-71
GetResponds ==
    /\ dl.pc = "get"
    /\ \E response \in {"error", "not200", "200"} :
         IF response = "200"
         THEN /\ dl' = [dl EXCEPT !.pc = "open"]
              /\ calls' = calls
         ELSE Returned(None, TRUE, dl.image_url, dl.fabric_name)
    /\ UNCHANGED <<disk, crawlVars, selectVars, itemVars, priceVars, classVars, syncVars, raceVars, storeVars>>

\* aiofiles.open(filepath, 'wb') creates the empty file, or fails: line 61
FileOpened ==
    /\ dl.pc = "open"
    /\ \E ok \in BOOLEAN :
         IF ok
         THEN /\ disk' = WriteFile(disk, FilePath(dl.image_url[1], dl.fabric_name),
                                   "partial")
              /\ dl' = [dl EXCEPT !.pc = "read"]
              /\ calls' = calls
         ELSE /\ disk' = disk
              /\ Returned(None, TRUE, dl.image_url, dl.fabric_name)
    /\ UNCHANGED <<crawlVars, selectVars, itemVars, priceVars, classVars, syncVars, raceVars, storeVars>>

\* response.read() delivers the body, or raises: line 62
BodyRead ==
    /\ dl.pc = "read"
    /\ \E ok \in BOOLEAN :
         IF ok
         THEN /\ dl' = [dl EXCEPT !.pc = "write"]
              /\ calls' = calls
         ELSE Returned(None, TRUE, dl.image_url, dl.fabric_name)
    /\ UNCHANGED <<disk, crawlVars, selectVars, itemVars, priceVars, classVars, syncVars, raceVars, storeVars>>

\* f.write(body) completes, or raises with part of the body written:
\* lines 62-64
BodyWritten ==
    /\ dl.pc = "write"
    /\ \E ok \in BOOLEAN :
         IF ok
         THEN /\ disk' = WriteFile(disk, FilePath(dl.image_url[1], dl.fabric_name),
                                   "image")
              /\ Returned(Some(FilePath(dl.image_url[1], dl.fabric_name)), TRUE,
                          dl.image_url, dl.fabric_name)
         ELSE /\ disk' = disk
              /\ Returned(None, TRUE, dl.image_url, dl.fabric_name)
    /\ UNCHANGED <<crawlVars, selectVars, itemVars, priceVars, classVars, syncVars, raceVars, storeVars>>

ImageNext ==
    \/ CallDownload
    \/ GetResponds
    \/ FileOpened
    \/ BodyRead
    \/ BodyWritten

\* an empty image directory, nothing else running
ImageStart == ImageInit /\ OtherIdle

SpecImage == ImageStart /\ [][ImageNext]_vars

(***************************************************************************)
(* Properties of download_image.                                           *)
(***************************************************************************)
SameArguments(a, b) ==
    a.image_url = b.image_url /\ a.fabric_name = b.fabric_name

\* C2 as stated: two calls in sequence with the same (non-empty) URL and
\* name make exactly one network fetch, and the second returns what the first
\* returned
C2_ExactlyOneFetch ==
    \A i \in 1..(Len(calls) - 1) :
        (SameArguments(calls[i], calls[i + 1]) /\ calls[i].image_url # None)
            => /\ calls[i].fetched
               /\ ~calls[i + 1].fetched
               /\ calls[i + 1].ret = calls[i].ret

\* C2: when the first of two calls in sequence with the same arguments
\* returns a path, the second returns the same path without a network fetch
C2_SecondCallCached ==
    \A i \in 1..(Len(calls) - 1) :
        (SameArguments(calls[i], calls[i + 1]) /\ calls[i].ret # None)
            => /\ ~calls[i + 1].fetched
               /\ calls[i + 1].ret = calls[i].ret

C2_Witness ==
    /\ Len(calls) = 2
    /\ SameArguments(calls[1], calls[2])
    /\ calls[1].fetched
    /\ calls[1].ret # None
    /\ calls[2].ret = calls[1].ret
    /\ ~calls[2].fetched

\* C3: right after a call that ended in a network or I/O failure no file
\* exists at its cache path, and no call with the same arguments that follows
\* a failed one is answered from the cache
C3_FailureLeavesNoFile ==
    /\ \A i \in 1..Len(calls) :
         (/\ i = Len(calls) /\ dl.pc = "idle"
          /\ calls[i].fetched /\ calls[i].ret = None)
            => ~PathExists(disk, FilePath(calls[i].image_url[1], calls[i].fabric_name))
    /\ \A i \in 1..(Len(calls) - 1) :
         (/\ SameArguments(calls[i], calls[i + 1])
          /\ calls[i].fetched /\ calls[i].ret = None)
            => ~(calls[i + 1].ret # None /\ ~calls[i + 1].fetched)

(***************************************************************************)
(* ScraperFactory.get_scraper.  A host (netloc) is the sequence of its     *)
(* labels: www.fabrichouse.com is <<"www", "fabrichouse", "com">>.         *)
(***************************************************************************)
\* labels of a host
MaxLabels == 3

Labels == {"www", "fabrichouse", "com", "shop"}

Hosts == SeqsUpTo(Labels, MaxLabels) \ {<<>>}

\* netloc.replace('www.', ''): every label www that a dot follows goes
DropWww(host) ==
    LET Keeps(i) == host[i] # "www" \/ i = Len(host)
        n == Cardinality({i \in 1..Len(host) : Keeps(i)})
        Nth(k) == CHOOSE i \in 1..Len(host) :
                     Keeps(i) /\ Cardinality({j \in 1..i : Keeps(j)}) = k
    IN [k \in 1..n |-> host[Nth(k)]]

\* ScraperFactory._scrapers, lines 10-13: the one key maps to None
ScrapersOf(domain) ==
    IF domain = <<"fabrichouse", "com">> THEN Some("None") ELSE None

\* ScraperFactory.get_scraper, lines 15-27
GetScraperFor(host) ==
    LET scraper_class == ScrapersOf(DropWww(host))
    IN IF scraper_class # None /\ scraper_class[1] # "None"
       THEN scraper_class[1]
       ELSE "GenericScraper"

SelectInit ==
    /\ sel_url \in {Url("https", h, "product", 1, FALSE, FALSE, 0) : h \in Hosts}
    /\ sel_out = None

\* get_scraper(url) is called
GetScraper ==
    /\ sel_out = None
    /\ sel_out' = Some(GetScraperFor(sel_url.host))
    /\ UNCHANGED <<sel_url, crawlVars, imageVars, itemVars, priceVars, classVars, syncVars, raceVars, storeVars>>

SelectNext == GetScraper

\* a URL to select a scraper for, nothing else running
SelectStart == SelectInit /\ CrawlInit /\ ImageInit /\ ItemIdle /\ RestIdle

SpecSelect == SelectStart /\ [][SelectNext]_vars

\* C4: the registered domain, with or without www., gets its specialized
\* scraper, every other host gets the generic one, and None is never returned
C4_SpecializedForRegistered ==
    sel_out # None =>
        /\ sel_out[1] # "None"
        /\ (DropWww(sel_url.host) = <<"fabrichouse", "com">>
               => sel_out[1] = "FabricHouseScraper")
        /\ (DropWww(sel_url.host) # <<"fabrichouse", "com">>
               => sel_out[1] = "GenericScraper")

(***************************************************************************)
(* One item scrape: fetch_html, then GenericScraper.scrape or              *)
(* FabricHouseScraper._scrape_product_page on what it returned.            *)
(***************************************************************************)
\* select_one hits per selector list of an item page
MaxHits == 1

Texts == {<<>>, <<" ">>, <<"Unknown">>, <<"ALPHA">>, <<"ALPHA", " ", "|", " ", "Shop">>}

DescTexts == {<<>>, <<"soft">>}

Optional(S) == {None} \cup {Some(x) : x \in S}

\* img elements of an item page
MaxImgs == 2

PlainRef == ImgRef("root", "", "", 1)

OtherRef == ImgRef("rel", "", "", 2)

IconRef == ImgRef("abs", "cdn.fabrichouse.com", "icon", 3)

BadgeRef == ImgRef("proto", "cdn.fabrichouse.com", "badge", 4)

\* width and height attributes: missing, small, large, one missing, empty,
\* not a number
Dims ==
    { <<None, None>>, <<Some("50"), Some("50")>>, <<Some("400"), Some("400")>>,
      <<Some("400"), None>>, <<Some(""), Some("")>>, <<Some("wide"), Some("50")>> }

Imgs ==
    {Img(Some(r), None, None, d[1], d[2], {}) :
        r \in {PlainRef, OtherRef, IconRef, BadgeRef}, d \in Dims}
    \cup {Img(Some(r), None, None, d[1], d[2], {5}) :
             r \in {PlainRef, BadgeRef}, d \in Dims}
    \cup { Img(None, None, None, None, None, {5}),
           Img(None, Some(PlainRef), None, None, None, {8}),
           Img(None, None, Some(OtherRef), Some("400"), Some("400"), {5}),
           Img(Some(OtherRef), None, None, Some("400"), Some("400"), {9}) }

\* a page with a name and these img elements
PictureDoc(imgs) ==
    WithImgs(ItemDoc(Some(<<"ALPHA">>), None, <<>>, None, <<>>), imgs)

\* fetch_html handing on whatever body came, whatever the status
FetchHtmlAnyStatus(response) == response.body

\* BaseScraper.fetch_html: the text of a 200 answer; None for any other
\* status and when session.get or response.text() raises
FetchHtml(response) ==
    IF response.outcome = "200" THEN response.body ELSE None

\* the server answers with a page of any name and description sources, with a
\* named page of up to MaxImgs img elements, with an empty body, or not at all
ItemInit ==
    /\ \/ \E o \in {"200", "404"},
             h1 \in Optional(Texts), title \in Optional(Texts),
             named \in SeqsUpTo(Texts, MaxHits),
             caps \in Optional({<<"ALPHA", " ", "WOOL">>}),
             descs \in SeqsUpTo(DescTexts, MaxHits) :
              item_net = Response(o, Some(ItemDoc(h1, title, named, caps, descs)))
       \/ \E imgs \in SeqsUpTo(Imgs, MaxImgs) :
              item_net = Response("200", Some(PictureDoc(imgs)))
       \/ \E o \in {"200", "404", "timeout", "error"} :
              item_net = Response(o, None)
    /\ item_html = None
    /\ item_out = None

\* GenericScraper.scrape(url), lines 29-173: fetch_html, then the extraction
ScrapeGeneric ==
    /\ item_out = None
    /\ item_html' = FetchHtml(item_net)
    /\ item_out' = Some([scraper |-> "GenericScraper",
                         out |-> IF item_html' = None THEN Return(<<>>)
                                 ELSE ExtractGeneric(item_html'[1])])
    /\ UNCHANGED <<item_net, crawlVars, imageVars, selectVars, priceVars, classVars, syncVars, raceVars, storeVars>>

\* FabricHouseScraper._scrape_product_page(url), lines 186-229: fetch_html,
\* then the extraction
ScrapeFabricHouse ==
    /\ item_out = None
    /\ item_html' = FetchHtml(item_net)
    /\ item_out' = Some([scraper |-> "FabricHouseScraper",
                         out |-> IF item_html' = None THEN Return(<<>>)
                                 ELSE ExtractProduct(item_html'[1])])
    /\ UNCHANGED <<item_net, crawlVars, imageVars, selectVars, priceVars, classVars, syncVars, raceVars, storeVars>>

ItemNext == ScrapeGeneric \/ ScrapeFabricHouse

\* a fetched item page, nothing else running
ItemStart == ItemInit /\ CrawlInit /\ ImageInit /\ SelectIdle /\ RestIdle

SpecItem == ItemStart /\ [][ItemNext]_vars

\* C5: an item scrape of a fetched document never raises; a description on
\* the page is extracted whatever the name sources hold
C5_ScrapeNeverRaises ==
    (item_out # None /\ item_html # None) =>
        /\ ~item_out[1].out.raised
        /\ (\E i \in 1..Len(item_html[1].descs) : item_html[1].descs[i] # <<>>)
              => "description" \in DOMAIN item_out[1].out.val

\* C11: an item scrape whose fetch fails (a status other than 200, a timeout, a
\* connection error) returns the empty record and raises nothing, in both
\* scrapers
C11_FailedFetchEmptyRecord ==
    (item_out # None /\ item_net.outcome # "200") =>
        /\ ~item_out[1].out.raised
        /\ item_out[1].out.val = <<>>
        /\ DOMAIN item_out[1].out.val = {}

C11_Witness ==
    /\ item_out # None
    /\ item_out[1].scraper = "FabricHouseScraper"
    /\ item_net.outcome = "404"
    /\ item_net.body # None
    /\ item_net.body[1].h1 = Some(<<"ALPHA">>)
    /\ item_out[1].out = Return(<<>>)

(***************************************************************************)
(* Order and pace of the fetches of a listing crawl.                       *)
(***************************************************************************)
\* index of the latest listing fetch before position i of the trace, 0 if none
ListingBefore(i) ==
    IF \E j \in 1..(i - 1) : trace[j].kind = "listing"
    THEN CHOOSE j \in 1..(i - 1) :
            /\ trace[j].kind = "listing"
            /\ \A k \in (j + 1)..(i - 1) : trace[k].kind # "listing"
    ELSE 0

\* C12: the fetches are interleaved page by page: a listing page, then each
\* item page found on it, then the next listing page.  With 2 links and a next
\* anchor on page 1, 1 link and no next-page indicator on page 2 and every
\* item named, the crawl fetches listing 1, two items, listing 2, one item,
\* nothing else, and returns 3 items with total_count 3
C12_InterleavedByPage ==
    /\ \A i \in 1..Len(trace) :
          LET j == ListingBefore(i)
          IN /\ (trace[i].kind = "listing" /\ j = 0) =>
                   (i = 1 /\ trace[i].page = 1)
             /\ (trace[i].kind = "listing" /\ j # 0) =>
                   /\ trace[i].page = trace[j].page + 1
                   /\ trace[j].next
                   /\ i - j - 1 = trace[j].links
             /\ (trace[i].kind = "item") =>
                   /\ j # 0
                   /\ trace[i].page = trace[j].page
                   /\ i - j <= trace[j].links
    /\ ( /\ pc = "done"
          /\ Len(trace) < MaxTrace
          /\ {e \in Range(trace) : e.kind = "listing"}
                = {ListingFetch(1, 2, TRUE), ListingFetch(2, 1, FALSE)}
          /\ \A e \in Range(trace) : e.kind = "item" => e.kept )
        => /\ trace = << ListingFetch(1, 2, TRUE), ItemFetch(1, TRUE), ItemFetch(1, TRUE),
                         ListingFetch(2, 1, FALSE), ItemFetch(2, TRUE) >>
           /\ fetched_pages = <<1, 2>>
           /\ Len(result[1].fabrics) = 3
           /\ result[1].total_count = 3
           /\ result[1].is_listing_page

C12_Witness ==
    /\ pc = "done"
    /\ trace = << ListingFetch(1, 2, TRUE), ItemFetch(1, TRUE), ItemFetch(1, TRUE),
                  ListingFetch(2, 1, FALSE), ItemFetch(2, TRUE) >>
    /\ Cardinality(scraped) = 3
    /\ result[1].total_count = 3

\* C13: the items of a page are scraped in the order in which their links
\* were discovered on the page (first occurrence, duplicates dropped)
C13_ItemsInDiscoveryOrder ==
    pc = "items" => product_urls = DiscoveredUrls(soup[1], SeedUrl).val

\* C14: the short delay is awaited after every item scrape, also one that
\* fails or raises; the long delay is awaited after each page before the next
\* listing fetch; so no fetch of the crawl follows another without a delay
C14_DelayAfterEveryFetch ==
    /\ [][pc = "items" => pc' = "item_delay"]_vars
    /\ [][(pc' = "fetch" /\ pc # "fetch" /\ page' > 1) => pc = "page_delay"]_vars
    /\ [][(pc \in {"fetch", "items"}) => (pc' \notin {"fetch", "items"})]_vars

\* C15: at most one fetch of the crawl is in flight at any time: a fetch is
\* issued only when the one before it has completed
C15_OneFetchInFlight ==
    /\ in_flight \in {0, 1}
    /\ in_flight = 1 <=> pc \in {"fetch", "items"}

C15_Witness ==
    /\ pc = "items"
    /\ in_flight = 1
    /\ idx = 2
    /\ Len(trace) = 2

(***************************************************************************)
(* Properties of the image extraction.                                     *)
(***************************************************************************)
\* the URL an img element offers as a candidate
CandidateUrl(img) ==
    LET ref == FirstPresent(<<img.src, img.data_src, img.lazy>>)
    IN IF ref = None THEN None ELSE Some(ResolveImg(ref[1], ItemBase))

\* the attribute is a number below 100
Below100(attr) == attr # None /\ IsInt(attr[1]) /\ IntOf(attr[1]) < 100

\* both width and height are present and one of them is below 100
TooSmall(img) ==
    /\ img.width # None
    /\ img.height # None
    /\ (Below100(img.width) \/ Below100(img.height))

\* C16: the image_url of a scraped record holds no blocklist word (icon, logo,
\* avatar, badge, button) and is the URL of an img element of the page that
\* is not rejected for its size (width and height present, one below 100)
C16_NoRejectedImage ==
    ( /\ item_out # None
      /\ ~item_out[1].out.raised
      /\ "image_url" \in DOMAIN item_out[1].out.val )
    => LET url == item_out[1].out.val["image_url"]
           imgs == item_html[1].imgs
       IN /\ url.word \notin BlockWords
          /\ \E i \in 1..Len(imgs) :
                CandidateUrl(imgs[i]) = Some(url) /\ ~TooSmall(imgs[i])

\* the URL the largest-image fallback reads from an img element
FallbackUrl(img) ==
    LET ref == FirstPresent(<<img.src, img.data_src>>)
    IN IF ref = None THEN None ELSE Some(ResolveImg(ref[1], ItemBase))

\* the positions of the img elements that have a URL without a blocklist word
Eligible(imgs) ==
    {i \in 1..Len(imgs) :
        FallbackUrl(imgs[i]) # None /\ FallbackUrl(imgs[i])[1].word \notin BlockWords}

\* width and height are numbers, or one of them is missing
Sized(img) ==
    \/ img.width = None
    \/ img.height = None
    \/ IsInt(img.width[1]) /\ IsInt(img.height[1])

\* width x height, 10000 when width or height is missing
AssumedSize(img) ==
    IF img.width = None \/ img.height = None THEN 10000
    ELSE IntOf(img.width[1]) * IntOf(img.height[1])

\* the number of selectors the scraper tries
LastSelector(scraper) == IF scraper = "FabricHouseScraper" THEN 9 ELSE 8

\* C17: when no selector match survives, an img element without width or
\* height counts as size 10000: a page whose only image without a blocklist
\* word has no dimension attributes yields that image's URL, and of the
\* images of largest size the first in the document is taken
C17_UnsizedAssumed10000 ==
    ( /\ item_out # None
      /\ item_html # None
      /\ ~item_out[1].out.raised
      /\ SelectorPass(item_html[1].imgs, ItemBase, 1,
                      LastSelector(item_out[1].scraper)) = None )
    => LET imgs == item_html[1].imgs
           image_url == Get(item_out[1].out.val, "image_url")
       IN /\ \A i \in Eligible(imgs) :
                (Eligible(imgs) = {i} /\ imgs[i].width = None /\ imgs[i].height = None)
                    => image_url = FallbackUrl(imgs[i])
          /\ \A i \in Eligible(imgs) :
                ( /\ \A j \in Eligible(imgs) : Sized(imgs[j])
                  /\ AssumedSize(imgs[i]) > 0
                  /\ \A j \in Eligible(imgs) :
                        \/ AssumedSize(imgs[j]) < AssumedSize(imgs[i])
                        \/ AssumedSize(imgs[j]) = AssumedSize(imgs[i]) /\ i <= j )
                    => image_url = FallbackUrl(imgs[i])

(***************************************************************************)
(* Price extraction: BaseScraper.extract_price and                         *)
(* FabricHouseScraper._extract_price.  A text is a sequence of characters; *)
(* the character "euro" is the euro sign and "pound" the pound sign.  A    *)
(* float is the record of its whole part and of the digits of its fraction *)
(* without trailing zeros, so 45.00 and 45.0 are the same value.           *)
(***************************************************************************)
Digits == <<"0", "1", "2", "3", "4", "5", "6", "7", "8", "9">>

IsDigit(c) == c \in Range(Digits)

IsSpace(c) == c = " "

\* re.IGNORECASE: the letter, in either case
Letter(c, lower, upper) == c \in {lower, upper}

\* int() of one digit
DigitValue(c) == FirstIndex([i \in 1..Len(Digits) |-> Digits[i] = c]) - 1

RECURSIVE NatOf(_)
NatOf(ds) ==
    IF ds = <<>> THEN 0
    ELSE 10 * NatOf(SubSeq(ds, 1, Len(ds) - 1)) + DigitValue(ds[Len(ds)])

RECURSIVE StripZeros(_)
StripZeros(ds) ==
    IF ds # <<>> /\ ds[Len(ds)] = "0"
    THEN StripZeros(SubSeq(ds, 1, Len(ds) - 1))
    ELSE ds

\* str.replace(old, new) for a one-character old
RECURSIVE Replace(_, _, _)
Replace(t, old, new) ==
    IF t = <<>> THEN <<>>
    ELSE (IF t[1] = old THEN new ELSE <<t[1]>>) \o Replace(Tail(t), old, new)

\* float(str) of digits, a point and digits
Float(str) ==
    LET k == FirstIndex([i \in 1..Len(str) |-> str[i] = "."])
    IN  [units |-> NatOf(SubSeq(str, 1, k - 1)),
         frac  |-> StripZeros(SubSeq(str, k + 1, Len(str)))]

Zero == [units |-> 0, frac |-> <<>>]

\* \d* from position i: the position after the digits
RECURSIVE DigitsEnd(_, _)
DigitsEnd(t, i) ==
    IF i <= Len(t) /\ IsDigit(t[i]) THEN DigitsEnd(t, i + 1) ELSE i

\* \s* from position i: the position after the white space
RECURSIVE SpacesEnd(_, _)
SpacesEnd(t, i) ==
    IF i <= Len(t) /\ IsSpace(t[i]) THEN SpacesEnd(t, i + 1) ELSE i

IsSeparator(t, i) == i <= Len(t) /\ t[i] \in {".", ","}

\* (\d+[\.,]\d{2}) at position i: the position after it, 0 if no match
TwoDecimalsEnd(t, i) ==
    LET e == DigitsEnd(t, i)
    IN  IF /\ e > i
           /\ IsSeparator(t, e)
           /\ e + 2 <= Len(t)
           /\ IsDigit(t[e + 1])
           /\ IsDigit(t[e + 2])
        THEN e + 3
        ELSE 0

\* (\d+[\.,]\d+) at position i: the position after it, 0 if no match
DecimalsEnd(t, i) ==
    LET e == DigitsEnd(t, i)
        f == DigitsEnd(t, e + 1)
    IN  IF e > i /\ IsSeparator(t, e) /\ f > e + 1 THEN f ELSE 0

\* where the group of [\$pound euro]?\s*(\d+[\.,]\d{2}) starts for a match
\* that starts at position i
SymbolAmountStart(t, i) ==
    SpacesEnd(t, IF i <= Len(t) /\ t[i] \in {"$", "pound", "euro"} THEN i + 1 ELSE i)

\* does the literal word begin at position i
LiteralAt(t, i, word) ==
    /\ i + Len(word) - 1 <= Len(t)
    /\ SubSeq(t, i, i + Len(word) - 1) = word

\* (\d+[\.,]\d{2})\s*(USD|EUR|GBP) matches at position i
AmountCodeAt(t, i) ==
    LET e == TwoDecimalsEnd(t, i)
    IN  /\ e # 0
        /\ \E code \in {<<"U", "S", "D">>, <<"E", "U", "R">>, <<"G", "B", "P">>} :
                LiteralAt(t, SpacesEnd(t, e), code)

\* re.search of the first pattern of extract_price: group 1 or None
SearchSymbolAmount(t) ==
    LET i == FirstIndex([j \in 1..Len(t) |->
                            TwoDecimalsEnd(t, SymbolAmountStart(t, j)) # 0])
        s == SymbolAmountStart(t, i)
    IN  IF i = 0 THEN None ELSE Some(SubSeq(t, s, TwoDecimalsEnd(t, s) - 1))

\* re.search of the second pattern of extract_price: group 1 or None
SearchAmountCode(t) ==
    LET i == FirstIndex([j \in 1..Len(t) |-> AmountCodeAt(t, j)])
    IN  IF i = 0 THEN None ELSE Some(SubSeq(t, i, TwoDecimalsEnd(t, i) - 1))

\* text.replace(',', '')
RemoveCommas(t) == Replace(t, ",", <<>>)

\* BaseScraper.extract_price
ExtractPrice(text) ==
    LET first  == SearchSymbolAmount(RemoveCommas(text))
        second == SearchAmountCode(RemoveCommas(text))
    IN  IF text = <<>> THEN None
        ELSE IF first # None THEN Some(Float(Replace(first[1], ",", <<".">>)))
        ELSE IF second # None THEN Some(Float(Replace(second[1], ",", <<".">>)))
        ELSE None

\* 1m\s*to\s*5m at position i: the position after it, 0 if no match
RangeEnd(t, i) ==
    LET a == SpacesEnd(t, i + 2)
        b == SpacesEnd(t, a + 2)
    IN  IF /\ i + 1 <= Len(t) /\ t[i] = "1" /\ Letter(t[i + 1], "m", "M")
           /\ a + 1 <= Len(t) /\ Letter(t[a], "t", "T") /\ Letter(t[a + 1], "o", "O")
           /\ b + 1 <= Len(t) /\ t[b] = "5" /\ Letter(t[b + 1], "m", "M")
        THEN b + 2
        ELSE 0

NoEuro(t, from, to) == \A j \in from..to : t[j] # "euro"

\* [^euro]*?1m\s*to\s*5m matches from position i
RangeFollows(t, i) ==
    \E r \in i..Len(t) : NoEuro(t, i, r - 1) /\ RangeEnd(t, r) # 0

\* euro(\d+[\.,]\d+)/m[^euro]*?1m\s*to\s*5m matches at position i
PerMetreBeforeRangeAt(t, i) ==
    LET f == DecimalsEnd(t, i + 1)
    IN  /\ t[i] = "euro"
        /\ f # 0
        /\ f + 1 <= Len(t) /\ t[f] = "/" /\ Letter(t[f + 1], "m", "M")
        /\ RangeFollows(t, f + 2)

\* the euro sign that 1m\s*to\s*5m[^euro]*? at position i leads to, 0 if none
EuroAfterRange(t, i) ==
    LET r == RangeEnd(t, i)
    IN  IF r = 0 THEN 0
        ELSE FirstIndex([j \in 1..Len(t) |-> j >= r /\ t[j] = "euro"])

\* 1m\s*to\s*5m[^euro]*?euro(\d+[\.,]\d+) matches at position i
RangeBeforeAmountAt(t, i) ==
    /\ EuroAfterRange(t, i) # 0
    /\ DecimalsEnd(t, EuroAfterRange(t, i) + 1) # 0

\* euro(\d+[\.,]\d+)[^euro]*?\|[^euro]*?1m\s*to\s*5m matches at position i
AmountBarRangeAt(t, i) ==
    LET f == DecimalsEnd(t, i + 1)
    IN  /\ t[i] = "euro"
        /\ f # 0
        /\ \E p \in f..Len(t) :
                /\ t[p] = "|"
                /\ NoEuro(t, f, p - 1)
                /\ RangeFollows(t, p + 1)

\* group 1 of the first of the three price_patterns that matches, or None
SearchRangePrice(t) ==
    LET one   == FirstIndex([j \in 1..Len(t) |-> PerMetreBeforeRangeAt(t, j)])
        two   == FirstIndex([j \in 1..Len(t) |-> RangeBeforeAmountAt(t, j)])
        three == FirstIndex([j \in 1..Len(t) |-> AmountBarRangeAt(t, j)])
        q     == EuroAfterRange(t, two)
    IN  IF one # 0 THEN Some(SubSeq(t, one + 1, DecimalsEnd(t, one + 1) - 1))
        ELSE IF two # 0 THEN Some(SubSeq(t, q + 1, DecimalsEnd(t, q + 1) - 1))
        ELSE IF three # 0 THEN Some(SubSeq(t, three + 1, DecimalsEnd(t, three + 1) - 1))
        ELSE None

\* FabricHouseScraper._extract_price on the text of the page
FabricHouseExtractPrice(text) ==
    LET group       == SearchRangePrice(text)
        first_price == ExtractPrice(text)
    IN  IF group # None THEN Some(Float(Replace(group[1], ",", <<".">>)))
        ELSE IF first_price # None /\ first_price[1] # Zero THEN first_price
        ELSE None

MaxChars == 4

PriceChars == {"$", "4", "0", ",", "."}

DollarComma == <<"$", "4", "5", ",", "0", "0">>

EuroPerMetre ==
    <<"euro", "2", "1", ".", "9", "0", "/", "m", " ", "e", "x", "c", "l", ".",
      " ", "V", "A", "T", " ", "|", " ", "1", "m", " ", "t", "o", " ", "5", "m">>

PriceExamples ==
    { DollarComma,
      EuroPerMetre,
      <<"euro", "4", "5", ",", "0", "0", "/", "m", " ", "|", " ", "1", "m", " ",
        "t", "o", " ", "5", "m">>,
      <<"1", "M", " ", "T", "O", " ", "5", "M", ":", " ", "euro", "3", ".", "5">>,
      <<"euro", "1", "2", ".", "5", "0", " ", "|", " ", "1", "m", "t", "o", "5", "m">>,
      <<"$", "1", ",", "2", "3", "4", ".", "5", "0">>,
      <<"4", "5", ",", "0", "0", " ", "o", "r", " ", "1", "2", ".", "5", "0">>,
      <<"a", "b", "o", "u", "t", " ", "1", "2", ".", "5", "0", " ", "E", "U", "R">>,
      <<"euro", "9", ".", "9", "9", " ", "euro", "2", ".", "5", "/", "m", " ",
        "1", "m", " ", "t", "o", " ", "5", "m">> }

PriceTexts == SeqsUpTo(PriceChars, MaxChars) \cup PriceExamples

PriceInit ==
    /\ price_text \in PriceTexts
    /\ price_out = None

PriceReturned(of, val) == Some([of |-> of, val |-> val])

CallExtractPrice ==
    /\ price_out = None
    /\ price_out' = PriceReturned("extract_price", ExtractPrice(price_text))
    /\ UNCHANGED <<price_text, crawlVars, imageVars, selectVars, itemVars, classVars, syncVars, raceVars, storeVars>>

CallFabricHouseExtractPrice ==
    /\ price_out = None
    /\ price_out' = PriceReturned("_extract_price", FabricHouseExtractPrice(price_text))
    /\ UNCHANGED <<price_text, crawlVars, imageVars, selectVars, itemVars, classVars, syncVars, raceVars, storeVars>>

PriceNext == CallExtractPrice \/ CallFabricHouseExtractPrice

PriceStart ==
    PriceInit /\ CrawlInit /\ ImageInit /\ SelectIdle /\ ItemIdle /\ ClassIdle /\ SyncIdle /\ RaceIdle
        /\ StoreIdle

SpecPrice == PriceStart /\ [][PriceNext]_vars

(***************************************************************************)
(* Properties of the price extraction                                      *)
(***************************************************************************)
\* the text is nothing but one amount written with a comma and two decimals,
\* with or without a currency sign in front
OnlyCommaAmount(t) ==
    LET s == IF t # <<>> /\ t[1] = "$" THEN 2 ELSE 1
        e == DigitsEnd(t, s)
    IN  /\ e > s
        /\ e + 2 = Len(t)
        /\ t[e] = ","
        /\ IsDigit(t[e + 1])
        /\ IsDigit(t[e + 2])

\* the value of that amount, its comma read as the decimal point
CommaAmountValue(t) ==
    LET s == IF t[1] = "$" THEN 2 ELSE 1
        e == DigitsEnd(t, s)
    IN  [units |-> NatOf(SubSeq(t, s, e - 1)),
         frac  |-> StripZeros(SubSeq(t, e + 1, Len(t)))]

\* C18: once a price extraction has returned, a text whose only amount is
\* written with a comma ("$45,00") has yielded that amount with the comma read
\* as the decimal point (45.00), and the text "euro 21.90/m excl. VAT | 1m to
\* 5m" has yielded 21.90.
C18_CommaDecimalNormalized ==
    price_out # None =>
        /\ OnlyCommaAmount(price_text)
                => price_out[1].val = Some(CommaAmountValue(price_text))
        /\ price_text = DollarComma
                => price_out[1].val = Some([units |-> 45, frac |-> <<>>])
        /\ price_text = EuroPerMetre
                => price_out[1].val = Some([units |-> 21, frac |-> <<"9">>])

(***************************************************************************)
(* Listing or item: how scrape(url) treats a URL.                          *)
(***************************************************************************)
ClassUrls ==
    { Url(scheme, host, kind, id, q, p, IF p THEN pg ELSE 0) :
        scheme \in {"http", "https"},
        host \in {SiteHost, "shop.example.com"},
        kind \in {"listing", "search", "product", "fabric", "other"},
        id \in {1, 2},
        q \in BOOLEAN,
        p \in BOOLEAN,
        pg \in {2, 3} }

ClassInit ==
    /\ cls_url \in ClassUrls
    /\ cls_out = None

Treated(scraper, as) == Some([scraper |-> scraper, as |-> as])

\* FabricHouseScraper.scrape: _scrape_listing_page or _scrape_product_page
ClassifyFabricHouse ==
    /\ cls_out = None
    /\ cls_out' = Treated("fabrichouse",
                          IF IsListingPage(cls_url) THEN "Listing" ELSE "Item")
    /\ UNCHANGED <<cls_url, crawlVars, imageVars, selectVars, itemVars, priceVars, syncVars, raceVars, storeVars>>

\* GenericScraper.scrape: the page is fetched and read as one item
ClassifyGeneric ==
    /\ cls_out = None
    /\ cls_out' = Treated("generic", "Item")
    /\ UNCHANGED <<cls_url, crawlVars, imageVars, selectVars, itemVars, priceVars, syncVars, raceVars, storeVars>>

ClassNext == ClassifyFabricHouse \/ ClassifyGeneric

ClassStart ==
    ClassInit /\ CrawlInit /\ ImageInit /\ SelectIdle /\ ItemIdle /\ PriceIdle /\ SyncIdle /\ RaceIdle
        /\ StoreIdle

SpecClassify == ClassStart /\ [][ClassNext]_vars

(***************************************************************************)
(* Properties of the classification                                        *)
(***************************************************************************)
\* C19: FabricHouseScraper treats a URL as a listing exactly when its path
\* holds the listing segment or the search marker, or its query holds the
\* parameter p, first or later; every other URL is an item, and the generic
\* scraper treats every URL as an item.
C19_ListingIffMarkerOrPageParam ==
    cls_out # None =>
        /\ cls_out[1].scraper = "fabrichouse" =>
                ( cls_out[1].as = "Listing"
                    <=> \/ cls_url.kind \in {"listing", "search"}
                        \/ cls_url.p )
        /\ cls_out[1].as \in {"Listing", "Item"}
        /\ cls_out[1].scraper = "generic" => cls_out[1].as = "Item"

(***************************************************************************)
(* The sync pass, scheduled_scraper.scrape_all_bookmarks, on a URL whose   *)
(* Fabric record exists: found by the configured URL (line 43) or by the   *)
(* URL of a record of a listing (line 87).  A record holds the columns the *)
(* update reads or writes and some it leaves alone; last_scraped counts    *)
(* the updates.  Texts are token sequences, prices are floats.             *)
(***************************************************************************)
Price10 == [units |-> 10, frac |-> <<>>]

Price20 == [units |-> 20, frac |-> <<"5">>]

\* a float is truthy unless it is 0.0
TruthyNumber(opt) == opt # None /\ opt[1] # Zero

Rows ==
    [ name         : {Some(<<"old", "name">>)},
      price        : {None, Some(Price10)},
      composition  : {None, Some(<<"cotton">>)},
      description  : {None, Some(<<"old", "text">>)},
      image_path   : {None, Some(<<>>), Some(<<"static/images/old.jpg">>)},
      rating       : {"unrated", "yes"},
      last_scraped : {0} ]

\* the dicts a scraper can hand back: each key present or not, a present
\* value empty or not
Datas ==
    { Field("name", name) @@ Field("price", price)
        @@ Field("composition", composition) @@ Field("description", description)
        @@ Field("image_url", image_url) :
        name \in {None, Some(<<>>), Some(<<"new", "name">>)},
        price \in {None, Some(Zero), Some(Price20)},
        composition \in {None, Some(<<>>), Some(<<"wool">>)},
        description \in {None, Some(<<"new", "text">>)},
        image_url \in {None, Some(<<>>), Some(<<"https://cdn.example.com/1.jpg">>)} }

SyncInit ==
    /\ row \in Rows
    /\ before = row
    /\ sync_data \in Datas
    /\ sync_pc \in {"existing", "listed_existing"}

AssignedAlways(old, got) == got

\* if data.get(key): existing.<column> = data.get(key)
Assigned(old, got) == IF Truthy(got) THEN got ELSE old

\* the same for the price
AssignedNumber(old, got) == IF TruthyNumber(got) THEN got ELSE old

\* lines 52-57 and 90-95: update fields if new data is available
WithFields(r, data) ==
    [r EXCEPT !.name = Assigned(r.name, Get(data, "name")),
              !.price = AssignedNumber(r.price, Get(data, "price")),
              !.composition = Assigned(r.composition, Get(data, "composition"))]

\* lines 60 and 97: a new image is available and the record has none
WantsImage(r, data) == Truthy(Get(data, "image_url")) /\ ~Truthy(r.image_path)

\* lines 63-64 and 100-101: if image_path: existing.image_path = image_path
WithImage(r, image_path) ==
    IF Truthy(image_path) THEN [r EXCEPT !.image_path = image_path] ELSE r

\* lines 67 and 103: existing.last_scraped = datetime.now()
Scraped(r) == [r EXCEPT !.last_scraped = r.last_scraped + 1]

\* what download_image can return: None or the path of the file
Downloaded == {None, Some(<<"static/images/new.jpg">>)}

\* the fields are set and then the image is awaited or the update committed
UpdateFields(at, awaiting) ==
    /\ sync_pc = at
    /\ IF WantsImage(WithFields(row, sync_data), sync_data)
       THEN /\ row' = WithFields(row, sync_data)
            /\ sync_pc' = awaiting
       ELSE /\ row' = Scraped(WithFields(row, sync_data))
            /\ sync_pc' = "committed"
    /\ UNCHANGED <<before, sync_data, crawlVars, imageVars, selectVars, itemVars, priceVars, classVars, raceVars, storeVars>>

\* download_image returns and the update is committed, or it raises and
\* the except of the loop skips the commit
ImageAwaited(awaiting) ==
    /\ sync_pc = awaiting
    /\ \/ \E image_path \in Downloaded :
            /\ row' = Scraped(WithImage(row, image_path))
            /\ sync_pc' = "committed"
       \/ /\ row' = row
          /\ sync_pc' = "failed"
    /\ UNCHANGED <<before, sync_data, crawlVars, imageVars, selectVars, itemVars, priceVars, classVars, raceVars, storeVars>>

\* lines 45-69, up to the await of download_image
UpdateFromScrape == UpdateFields("existing", "download")

\* lines 62-69
DownloadForScrape == ImageAwaited("download")

\* lines 89-106, up to the await of download_image
UpdateFromListing == UpdateFields("listed_existing", "listed_download")

\* lines 100-105
DownloadForListing == ImageAwaited("listed_download")

SyncNext ==
    \/ UpdateFromScrape
    \/ DownloadForScrape
    \/ UpdateFromListing
    \/ DownloadForListing

SyncStart ==
    SyncInit /\ CrawlInit /\ ImageInit /\ SelectIdle /\ ItemIdle /\ PriceIdle /\ ClassIdle /\ RaceIdle
        /\ StoreIdle

SpecSync == SyncStart /\ [][SyncNext]_vars

(***************************************************************************)
(* Properties of the update of an existing record                          *)
(***************************************************************************)
\* the column holds what it held when the record was found
Kept(column) == row[column] = before[column]

\* C20: while and after an existing record is updated from a scrape result,
\* name, price and composition differ from their previous values only if the
\* result carries them (and then they hold the result's value), image_path
\* differs only if it was empty and an image was resolved, and rating and
\* description hold their previous values; a field absent from the result
\* keeps its previous value.
C20_AbsentFieldsKept ==
    /\ \A column \in {"name", "price", "composition"} :
            \/ Kept(column)
            \/ /\ Get(sync_data, column) # None
               /\ row[column] = Get(sync_data, column)
    /\ \/ Kept("image_path")
       \/ /\ ~Truthy(before.image_path)
          /\ Truthy(Get(sync_data, "image_url"))
          /\ row.image_path \in Downloaded \ {None}
    /\ Kept("rating")
    /\ Kept("description")

\* an update that was committed changed the price and the image, and kept the
\* name the result did not carry and the rating the user had given
C20_Witness ==
    /\ sync_pc = "committed"
    /\ Get(sync_data, "name") = None
    /\ ~Kept("price")
    /\ ~Kept("image_path")
    /\ Kept("name")
    /\ before.rating = "yes"
    /\ row.last_scraped = 1

(***************************************************************************)
(* Repeated links and failing items in the listing crawl                   *)
(***************************************************************************)
NoRepeat(s) == \A i, j \in 1..Len(s) : s[i] = s[j] => i = j

\* the URLs of the items of a list of records
SourceUrls(fabrics) == [i \in 1..Len(fabrics) |-> fabrics[i]["url"]]

\* C23: while the items of one listing page are scraped, the list the for
\* loop walks holds each item URL once, however many links of the page lead
\* to it and however many selectors match them.
C23_OncePerPage ==
    pc \in {"items", "item_delay"} => NoRepeat(product_urls)

\* the page being scraped reaches one of its items through two visits of the
\* selector loops
C23_Witness ==
    /\ pc = "items"
    /\ \E a, b \in 1..Len(Selected(soup[1])) :
            /\ a # b
            /\ Absolute(Selected(soup[1])[a].href[1], SeedUrl)
                    = Absolute(Selected(soup[1])[b].href[1], SeedUrl)
            /\ Absolute(Selected(soup[1])[a].href[1], SeedUrl) \in Range(product_urls)

\* C24: at every point of a crawl the items collected so far carry pairwise
\* distinct source URLs (no item URL is scraped and kept twice), also when a
\* later listing page links to an item of an earlier one.
C24_DistinctAcrossPages ==
    /\ NoRepeat(SourceUrls(all_fabrics))
    /\ result # None => NoRepeat(SourceUrls(result[1].fabrics))

\* C27: when scraping an item raises, nothing is added to the results, the
\* crawl goes on with the next link of the page, or after the last link
\* with the next page if there is one, the exception never leaves the crawl,
\* and the ListingResult returned holds every item kept.
C27_ItemFailureConfined ==
    /\ [][ (pc = "items" /\ ScrapeProductPage(product_urls[idx]).raised) =>
            ( /\ all_fabrics' = all_fabrics
              /\ pc' # "raised"
              /\ idx < Len(product_urls) =>
                    (pc' = "items" /\ idx' = idx + 1 /\ page' = page
                        /\ product_urls' = product_urls)
              /\ (idx = Len(product_urls) /\ HasNextPage(soup[1]) /\ page < PageLimit) =>
                    (pc' = "page_delay" /\ page' = page + 1)
              /\ (idx = Len(product_urls) /\ ~HasNextPage(soup[1])) =>
                    (pc' = "done" /\ result' = Some(ListingResult(all_fabrics))) ) ]_vars
    /\ [](pc = "done" => result = Some(ListingResult(all_fabrics)))

\* a crawl returned after an item between two kept ones raised, and an item
\* of the next page was kept as well
C27_Witness ==
    /\ pc = "done"
    /\ Len(trace) = MaxTrace
    /\ trace[2].kind = "item" /\ trace[2].kept
    /\ trace[3].kind = "item" /\ ~trace[3].kept
    /\ trace[4].kind = "item" /\ trace[4].kept
    /\ trace[6].kind = "item" /\ trace[6].page = 2 /\ trace[6].kept
    /\ \E u \in scraped : ScrapeProductPage(u).raised
    /\ Len(result[1].fabrics) = 3

(***************************************************************************)
(* Concurrent calls of utils.download_image with one and the same          *)
(* (image_url, fabric_name) pair, as made by coroutines of one event loop  *)
(* (two requests, or a request and the scheduled pass).  Each caller has   *)
(* the positions of dl.pc, "returned" once it has returned, and records    *)
(* what os.path.exists found at line 46 ("nothing", "partial", "image")    *)
(* and whether it wrote the body.  They share the image directory.         *)
(***************************************************************************)
MaxCallers == 3

Callers == 1..MaxCallers

RaceUrl == ImageUrl(1, ".jpg", FALSE)

RaceName == <<"a">>

RacePath == FilePath(RaceUrl, RaceName)

\* a check that takes only a completely written file for a hit
CacheHitComplete(d) == PathExists(d, RacePath) /\ d[RacePath] = "image"

\* lines 46-48: the file exists, whatever it holds
CacheHit(d) == PathExists(d, RacePath)

NotCalled == [pc |-> "idle", saw |-> "none", wrote |-> FALSE, ret |-> None]

RaceInit == race = [c \in Callers |-> NotCalled]

\* the caller returns ret
RaceReturned(c, ret) ==
    race' = [race EXCEPT ![c].pc = "returned", ![c].ret = ret]

\* lines 23-53: the cache check, then the request is sent
RaceCall ==
    \E c \in Callers :
        /\ race[c].pc = "idle"
        /\ IF CacheHit(disk)
           THEN race' = [race EXCEPT ![c].pc = "returned", ![c].saw = disk[RacePath],
                                     ![c].ret = Some(RacePath)]
           ELSE race' = [race EXCEPT ![c].pc = "get", ![c].saw = "nothing"]
        /\ UNCHANGED <<disk, dl, calls, crawlVars, selectVars, itemVars, priceVars,
                       classVars, syncVars, storeVars>>

\* session.get answers or fails: lines 53-54, 65-71
RaceGetResponds ==
    \E c \in Callers :
        /\ race[c].pc = "get"
        /\ \/ race' = [race EXCEPT ![c].pc = "open"]
           \/ RaceReturned(c, None)
        /\ UNCHANGED <<disk, dl, calls, crawlVars, selectVars, itemVars, priceVars,
                       classVars, syncVars, storeVars>>

\* aiofiles.open(filepath, 'wb') creates or truncates the file, or fails
RaceFileOpened ==
    \E c \in Callers :
        /\ race[c].pc = "open"
        /\ \/ /\ disk' = WriteFile(disk, RacePath, "partial")
              /\ race' = [race EXCEPT ![c].pc = "read"]
           \/ /\ disk' = disk
              /\ RaceReturned(c, None)
        /\ UNCHANGED <<dl, calls, crawlVars, selectVars, itemVars, priceVars,
                       classVars, syncVars, storeVars>>

\* response.read() delivers the body, or raises: line 62
RaceBodyRead ==
    \E c \in Callers :
        /\ race[c].pc = "read"
        /\ \/ race' = [race EXCEPT ![c].pc = "write"]
           \/ RaceReturned(c, None)
        /\ UNCHANGED <<disk, dl, calls, crawlVars, selectVars, itemVars, priceVars,
                       classVars, syncVars, storeVars>>

\* f.write(body) completes, or raises: lines 62-64
RaceBodyWritten ==
    \E c \in Callers :
        /\ race[c].pc = "write"
        /\ \/ /\ disk' = WriteFile(disk, RacePath, "image")
              /\ race' = [race EXCEPT ![c].pc = "returned", ![c].wrote = TRUE,
                                       ![c].ret = Some(RacePath)]
           \/ /\ disk' = disk
              /\ RaceReturned(c, None)
        /\ UNCHANGED <<dl, calls, crawlVars, selectVars, itemVars, priceVars,
                       classVars, syncVars, storeVars>>

RaceNext ==
    \/ RaceCall
    \/ RaceGetResponds
    \/ RaceFileOpened
    \/ RaceBodyRead
    \/ RaceBodyWritten

RaceStart ==
    RaceInit /\ ImageInit /\ CrawlInit /\ SelectIdle /\ ItemIdle /\ PriceIdle
        /\ ClassIdle /\ SyncIdle /\ StoreIdle

SpecRace == RaceStart /\ [][RaceNext]_vars

(***************************************************************************)
(* Properties of concurrent downloads                                      *)
(***************************************************************************)
Fetching(c) == race[c].pc \in {"get", "open", "read", "write"}

\* C22: the existence check at the start of a call is all that keeps a caller
\* from fetching: a caller that starts when no file exists goes on to fetch,
\* however many callers are already fetching the same path, and a caller that
\* starts when the file exists, complete or only opened, returns its path
\* as a cache hit; each fetching caller opens and writes that same path.
C22_OnlyTheCheckExcludes ==
    [][ \A c \in Callers :
          /\ (race[c].pc = "idle" /\ race'[c].pc # "idle") =>
                IF RacePath \in DOMAIN disk
                THEN /\ race'[c].pc = "returned"
                     /\ race'[c].ret = Some(RacePath)
                     /\ race'[c].saw = disk[RacePath]
                ELSE race'[c].pc = "get"
          /\ (race[c].pc = "open" /\ race'[c].pc = "read") =>
                (RacePath \in DOMAIN disk' /\ disk'[RacePath] = "partial")
          /\ (race[c].pc = "write" /\ race'[c].wrote) =>
                (RacePath \in DOMAIN disk' /\ disk'[RacePath] = "image") ]_vars

\* two callers passed the check with no file, both wrote the path, and a
\* third received the path while the file was opened and not yet written
C22_Witness ==
    /\ \E a, b \in Callers :
            /\ a # b
            /\ race[a].saw = "nothing" /\ race[a].wrote
            /\ race[b].saw = "nothing" /\ race[b].wrote
    /\ \E c \in Callers :
            /\ race[c].pc = "returned"
            /\ race[c].saw = "partial"
            /\ race[c].ret = Some(RacePath)

(***************************************************************************)
(* The callers of scrape and the store: the scrape endpoint                *)
(* (main.scrape_fabric), one URL of the batch endpoint                     *)
(* (main.scrape_fabric_batch), one URL of the scheduled pass               *)
(* (scheduled_scraper.scrape_all_bookmarks) and main.delete_fabric, over   *)
(* the table fabrics and the image directory.  Requests run concurrently   *)
(* (coroutines of the server's event loop, the scheduler's thread): one    *)
(* action per await of a caller.  A row holds the columns id, url, name    *)
(* and image_path.  The callers are written against any scraper: the value *)
(* of scraper.scrape(url) is a dict of item fields, the empty dict of a    *)
(* failed fetch, or the listing result of FabricHouseScraper.              *)
(*   op.pc: "free"      not a request                                      *)
(*          "scrape"    awaiting scraper.scrape(url)                       *)
(*          "download"  awaiting download_image for the record of url      *)
(*          "update_download"       ... for the existing record of url     *)
(*          "item_download"         ... for a new record of a listing      *)
(*          "item_update_download"  ... for an existing record of a listing*)
(*          "done"      the request is over, op.out tells how: it leaves   *)
(*                      ops and is kept in ended_op                        *)
(***************************************************************************)
MaxOps == 2

MaxRequests == 3

SharedImage == ImageUrl(1, ".jpg", FALSE)

ItemA == ItemUrl("product", 1)

ItemB == ItemUrl("product", 2)

DownUrl == ItemUrl("product", 4)

ListingUrl == Url("https", SiteHost, "search", 0, FALSE, FALSE, 0)

StoreUrls == {ItemA, ItemB, DownUrl, SeedUrl, ListingUrl}

\* two item pages show the same name and the same image
ItemData == ("name" :> <<"a">>) @@ ("image_url" :> SharedImage)

\* what scraper.scrape(u) can come to: an unreachable URL gives the empty
\* dict, a listing without reachable page a listing result without items
Served(u) ==
    CASE u \in {ItemA, ItemB} -> {Return(ItemData)}
      [] u = SeedUrl -> {Return(ListingResult(<<>>))}
      [] u = ListingUrl ->
            {Return(ListingResult(<< WithUrl(ItemData, ItemA),
                                      WithUrl("name" :> <<"b">>, ItemB) >>))}
      [] OTHER -> {Return(<<>>), Raise}

NoOp ==
    [kind |-> "none", url |-> SeedUrl, pc |-> "free", data |-> None, i |-> 0,
     added |-> FALSE, row_id |-> 0, path |-> None, out |-> "none"]

StoreInit ==
    /\ store = <<>>
    /\ ops = EmptyBag
    /\ started = 0
    /\ ended_op = NoOp

Row(id, url, name, image_path) ==
    [id |-> id, url |-> url, name |-> name, image_path |-> image_path]

\* the integer primary key of a new row: one more than the largest in use
NextId(st) ==
    IF st = <<>> THEN 1
    ELSE 1 + CHOOSE m \in {st[i].id : i \in 1..Len(st)} :
                    \A i \in 1..Len(st) : st[i].id <= m

\* db.query(Fabric).filter(Fabric.url == u).first(): its index, 0 if None
ByUrl(st, u) == FirstIndex([i \in 1..Len(st) |-> st[i].url = u])

\* the row an object loaded earlier refers to: its index, 0 if it is gone
ById(st, id) == FirstIndex([i \in 1..Len(st) |-> st[i].id = id])

\* the lookup answering None whatever the table holds
StoredNever(st, u) == FALSE

\* existing = db.query(...).first(); if existing:
Stored(st, u) == ByUrl(st, u) # 0

HasImage(data) == "image_url" \in DOMAIN data

\* data.get("name", "Unknown")
NameOf(data) == IF "name" \in DOMAIN data THEN data["name"] ELSE Unknown

\* data.get("name", "fabric")
DownloadName(data) ==
    IF "name" \in DOMAIN data THEN data["name"] ELSE <<"f", "a", "b", "r", "i", "c">>

\* data.get("is_listing_page") and data.get("fabrics")
IsListing(data) ==
    Get(data, "is_listing_page") = Some(TRUE) /\ Truthy(Get(data, "fabrics"))

\* db.add(fabric); db.commit(): None when the unique index on url refuses it
TryInsert(st, u, data, image_path) ==
    IF ByUrl(st, u) # 0 THEN None
    ELSE Some(Append(st, Row(NextId(st), u, NameOf(data), image_path)))

Step(op, st) == [op |-> op, store |-> st]

\* the request is over: what it was for and how it ended
Ended(op, out) ==
    [NoOp EXCEPT !.kind = op.kind, !.url = op.url, !.data = op.data,
                 !.pc = "done", !.out = out]

\* Fabric(...); db.add; db.commit for the URL of the request
Create(op, st, image_path) ==
    LET ins == TryInsert(st, op.url, op.data[1], image_path)
    IN  IF ins = None THEN Step(Ended(op, "integrity_error"), st)
        ELSE Step(Ended(op, "created"), ins[1])

\* handle single product page: main.py 146-186 and 214-244,
\* scheduled_scraper.py 145-180, up to the await of download_image
Single(op, st, d) ==
    LET data == op.data[1]
        path == FilePath(data["image_url"], DownloadName(data))
    IN  IF ~HasImage(data) THEN Create(op, st, None)
        ELSE IF PathExists(d, path) THEN Create(op, st, Some(path))
        ELSE Step([op EXCEPT !.pc = "download", !.path = Some(path)], st)

\* if data.get("name"): existing.name = ...; if image_path: existing.image_path
\* = image_path; db.commit(), on the row with this id
Update(st, id, data, image_path) ==
    LET k == ById(st, id)
    IN  [st EXCEPT ![k].name = IF Truthy(Get(data, "name")) THEN data["name"] ELSE @,
                   ![k].image_path = IF image_path # None THEN image_path ELSE @]

\* the name download_image is given for an existing row
UpdatedName(r, data) == IF Truthy(Get(data, "name")) THEN data["name"] ELSE r.name

\* scheduled_scraper.py 52-69: update of the record of the URL, up to the
\* await of download_image; the row may have been deleted meanwhile
UpdateExisting(op, st, d) ==
    LET data == op.data[1]
        k    == ById(st, op.row_id)
        path == FilePath(data["image_url"], UpdatedName(st[k], data))
    IN  IF k = 0 THEN Step(Ended(op, "error"), st)
        ELSE IF ~(HasImage(data) /\ st[k].image_path = None)
        THEN Step(Ended(op, "updated"), Update(st, op.row_id, data, None))
        ELSE IF PathExists(d, path)
        THEN Step(Ended(op, "updated"), Update(st, op.row_id, data, Some(path)))
        ELSE Step([op EXCEPT !.pc = "update_download", !.path = Some(path)], st)

\* the URL of a record of a listing: fabric_data.get('url', url)
ItemUrlOf(op) ==
    LET fd == op.data[1].fabrics[op.i]
    IN  IF "url" \in DOMAIN fd THEN fd["url"] ELSE op.url

\* main.py 140-144 and scheduled_scraper.py 142-143: after the for loop
AfterFabrics(op) ==
    IF op.kind = "sync" THEN Ended(op, "listed")
    ELSE IF op.added THEN Ended(op, "created") ELSE Ended(op, "no_fabrics")

NextFabric(op, added) == [op EXCEPT !.i = @ + 1, !.added = @ \/ added]

\* the for loop over data['fabrics'] from record op.i on, up to the next
\* await of download_image: main.py 100-138, scheduled_scraper.py 82-140
RECURSIVE Fabrics(_, _, _)
Fabrics(op, st, d) ==
    IF op.i > Len(op.data[1].fabrics) THEN Step(AfterFabrics(op), st)
    ELSE
    LET fd   == op.data[1].fabrics[op.i]
        u    == ItemUrlOf(op)
        k    == ByUrl(st, u)
        new  == FilePath(fd["image_url"], DownloadName(fd))
        kept == FilePath(fd["image_url"], UpdatedName(st[k], fd))
    IN  IF k # 0
        THEN IF op.kind # "sync" THEN Fabrics(NextFabric(op, TRUE), st, d)
             ELSE IF ~(HasImage(fd) /\ st[k].image_path = None)
             THEN Fabrics(NextFabric(op, FALSE), Update(st, st[k].id, fd, None), d)
             ELSE IF PathExists(d, kept)
             THEN Fabrics(NextFabric(op, FALSE), Update(st, st[k].id, fd, Some(kept)), d)
             ELSE Step([op EXCEPT !.pc = "item_update_download", !.path = Some(kept),
                                  !.row_id = st[k].id], st)
        ELSE IF ~HasImage(fd)
        THEN Fabrics(NextFabric(op, TRUE), TryInsert(st, u, fd, None)[1], d)
        ELSE IF PathExists(d, new)
        THEN Fabrics(NextFabric(op, TRUE), TryInsert(st, u, fd, Some(new))[1], d)
        ELSE Step([op EXCEPT !.pc = "item_download", !.path = Some(new)], st)

\* the awaited download_image of a record of a listing returned image_path
FabricResumed(op, st, d, image_path) ==
    LET fd  == op.data[1].fabrics[op.i]
        ins == TryInsert(st, ItemUrlOf(op), fd, image_path)
    IN  IF op.pc = "item_download"
        THEN IF ins = None
             THEN Step(Ended(op, IF op.kind = "sync" THEN "error" ELSE "integrity_error"), st)
             ELSE Fabrics(NextFabric(op, TRUE), ins[1], d)
        ELSE IF ById(st, op.row_id) = 0 THEN Step(Ended(op, "error"), st)
             ELSE Fabrics(NextFabric(op, FALSE), Update(st, op.row_id, fd, image_path), d)

\* what a caller does with the value of scraper.scrape
OnScraped(op, st, d) ==
    IF op.row_id # 0 THEN UpdateExisting(op, st, d)
    ELSE IF op.kind # "batch" /\ IsListing(op.data[1])
    THEN Fabrics([op EXCEPT !.i = 1], st, d)
    ELSE Single(op, st, d)

\* what a caller does with the value of the awaited download_image
OnDownloaded(op, st, d, image_path) ==
    CASE op.pc = "download" -> Create(op, st, image_path)
      [] op.pc = "update_download" ->
            IF ById(st, op.row_id) = 0 THEN Step(Ended(op, "error"), st)
            ELSE Step(Ended(op, "updated"), Update(st, op.row_id, op.data[1], image_path))
      [] OTHER -> FabricResumed(op, st, d, image_path)

\* a request arrives while fewer than MaxOps are in progress
Room == BagCardinality(ops) < MaxOps

\* the request that was at old is now at op, or is over
Moved(old, op) ==
    IF op.pc = "done"
    THEN ops' = ops (-) SetToBag({old}) /\ ended_op' = op
    ELSE ops' = (ops (-) SetToBag({old})) (+) SetToBag({op}) /\ ended_op' = ended_op

Begun(kind, u) == [NoOp EXCEPT !.kind = kind, !.url = u, !.pc = "scrape"]

\* a request arrives at the scrape or batch endpoint: main.py 85-94, 202-212
Arrives(kind, found) ==
    /\ started < MaxRequests
    /\ Room
    /\ \E u \in StoreUrls :
        /\ Moved(NoOp, IF Stored(store, u)
                     THEN Ended([NoOp EXCEPT !.kind = kind, !.url = u], found)
                     ELSE Begun(kind, u))
    /\ started' = started + 1
    /\ UNCHANGED <<store, crawlVars, imageVars, selectVars, itemVars, priceVars,
                   classVars, syncVars, raceVars>>

ScrapeRequest == Arrives("scrape", "existing")

BatchUrl == Arrives("batch", "exists")

\* the scheduled pass reaches a URL of its config: scheduled_scraper.py
\* 43-49 and 72-77
SyncUrl ==
    /\ started < MaxRequests
    /\ Room
    /\ \E u \in StoreUrls :
        /\ Moved(NoOp, [Begun("sync", u) EXCEPT !.row_id =
                        IF ByUrl(store, u) # 0 THEN store[ByUrl(store, u)].id ELSE 0])
    /\ started' = started + 1
    /\ UNCHANGED <<store, crawlVars, imageVars, selectVars, itemVars, priceVars,
                   classVars, syncVars, raceVars>>

\* scraper.scrape(url) returns or raises
ScrapeReturns ==
    \E op \in BagToSet(ops) :
        /\ op.pc = "scrape"
        /\ \E got \in Served(op.url) :
            LET next == OnScraped([op EXCEPT !.data = Some(got.val)], store, disk)
            IN  IF got.raised
                THEN /\ Moved(op, Ended(op, "error"))
                     /\ store' = store
                ELSE /\ Moved(op, next.op)
                     /\ store' = next.store
        /\ UNCHANGED <<started, crawlVars, imageVars, selectVars, itemVars, priceVars,
                       classVars, syncVars, raceVars>>

\* the awaited download_image returns None, or the path of the file it wrote
DownloadReturns ==
    \E op \in BagToSet(ops) :
        /\ op.pc \in {"download", "update_download", "item_download",
                     "item_update_download"}
        /\ \E image_path \in {None, op.path} :
            /\ disk' = IF image_path = None THEN disk
                       ELSE WriteFile(disk, image_path[1], "image")
            /\ Moved(op, OnDownloaded(op, store, disk', image_path).op)
            /\ store' = OnDownloaded(op, store, disk', image_path).store
        /\ UNCHANGED <<started, dl, calls, crawlVars, selectVars, itemVars, priceVars,
                       classVars, syncVars, raceVars>>

\* os.remove(path)
RemoveFile(d, path) == [p \in DOMAIN d \ {path} |-> d[p]]

\* main.delete_fabric on the id of a stored row: main.py 296-308
DeleteFabric ==
    /\ started < MaxRequests
    /\ \E k \in 1..Len(store) :
        /\ disk' = IF store[k].image_path # None /\ PathExists(disk, store[k].image_path[1])
                   THEN RemoveFile(disk, store[k].image_path[1])
                   ELSE disk
        /\ store' = SubSeq(store, 1, k - 1) \o SubSeq(store, k + 1, Len(store))
    /\ started' = started + 1
    /\ UNCHANGED <<ops, ended_op, dl, calls, crawlVars, selectVars, itemVars, priceVars,
                   classVars, syncVars, raceVars>>

StoreNext ==
    \/ ScrapeRequest
    \/ BatchUrl
    \/ SyncUrl
    \/ ScrapeReturns
    \/ DownloadReturns
    \/ DeleteFabric

StoreStart ==
    StoreInit /\ ImageInit /\ CrawlInit /\ SelectIdle /\ ItemIdle /\ PriceIdle
        /\ ClassIdle /\ SyncIdle /\ RaceIdle

SpecStore == StoreStart /\ [][StoreNext]_vars

(***************************************************************************)
(* Properties of the callers and the store                                 *)
(***************************************************************************)
\* the request that ended last got this kind of record from scraper.scrape
GotEmptyRecord == ended_op.data # None /\ DOMAIN ended_op.data[1] = {}

GotEmptyListing ==
    /\ ended_op.data # None
    /\ "is_listing_page" \in DOMAIN ended_op.data[1]
    /\ ended_op.data[1].is_listing_page = TRUE
    /\ ended_op.data[1].fabrics = <<>>

\* C21: a request whose scrape returned the empty record (no field at all,
\* the unreachable URL) does not end as a request whose scrape returned a
\* fetched page does, by creating or updating a record
C21_EmptyRecordTreatedApart ==
    GotEmptyRecord => ended_op.out \notin {"created", "updated"}

\* C25: a scrape request whose scrape returned a listing result with zero
\* items ends with 'No fabrics found on listing page', and neither it nor the
\* scheduled sync creates a record for that result
C25_EmptyListingCreatesNothing ==
    GotEmptyListing =>
        /\ ended_op.out # "created"
        /\ ended_op.kind = "scrape" => ended_op.out = "no_fabrics"

\* C26: every stored record whose image_path is set names a file that exists
\* in the image directory
C26_ImagePathsExist ==
    \A k \in 1..Len(store) :
        store[k].image_path # None => PathExists(disk, store[k].image_path[1])

\* the request that arrives in this step: it ended at once, or it is the one
\* more request in progress
Arrived ==
    IF ops' = ops THEN ended_op'
    ELSE CHOOSE op \in BagToSet(ops') : CopiesIn(op, ops') > CopiesIn(op, ops)

\* a step in which a request arrives (a delete makes the store shorter)
Arrival == started' = started + 1 /\ Len(store') >= Len(store)

OnePerUrl(st) == \A j, k \in 1..Len(st) : st[j].url = st[k].url => j = k

\* C28: a scrape or batch request for a URL that has a stored record ends at
\* once with that record: it fetches no page, downloads no image and leaves
\* the store and the image directory as they are; and the store never holds
\* two records with the same source URL
C28_StoredUrlNotScrapedAgain ==
    /\ [][(Arrival /\ Arrived.kind \in {"scrape", "batch"}
                   /\ ByUrl(store, Arrived.url) # 0) =>
            /\ Arrived.pc = "done"
            /\ Arrived.out \in {"existing", "exists"}
            /\ Arrived.data = None
            /\ ops' = ops
            /\ store' = store
            /\ disk' = disk]_vars
    /\ [](OnePerUrl(store))

\* a request for a stored URL has ended at once with the existing record,
\* while the store holds two records
C28_Witness ==
    /\ ended_op.out \in {"existing", "exists"}
    /\ ByUrl(store, ended_op.url) # 0
    /\ Len(store) >= 2

====
